---- MODULE Spec2Model ----
(***************************************************************************)
(* Model of the Futu trading agent: the position ledger (position.jsonl)   *)
(* written by BaseAgentFutu.register_agent and by buy_futu / sell_futu     *)
(* through record_trade_to_file under the per-signature .position.lock,    *)
(* and the retry wrapper BaseAgentFutu._ainvoke_with_retry.                *)
(*                                                                         *)
(* Several OS processes run the operations; an action is one step of one   *)
(* process between two accesses to what the processes share (the ledger    *)
(* file, the lock file, the brokerage).                                    *)
(***************************************************************************)
EXTENDS Integers, Sequences, FiniteSets, TLC

\* ------------------------------------------------------------------ bounds
NumProcs == 2
MaxCalls == 3
MaxRetriesBound == 4
MaxDelay == 2
MaxSteps == 3
MaxTextLen == 4
MaxCycles == 3
MaxInterval == 2
MaxTrades == 2
MaxModels == 2
MaxHolding == 2

Procs == 1..NumProcs
\* The account signatures (SIGNATURE); each names one ledger and one lock file.
Accounts == {"A1", "A2"}
\* get_config_value("SIGNATURE") of a tool call: an account, or None.
NoSignature == "<none>"
\* initial_cash values a register_agent call may carry.
CashValues == {100, 200}
\* Failures the decision step may raise (subclasses of Exception).
Errors == {"E1", "E2"}

VARIABLES
    fileExists,   \* [account -> BOOLEAN]: position.jsonl exists
    ledger,       \* [account -> Seq(entry)]: the lines of position.jsonl, in file order
    flock,        \* [lock path -> process holding LOCK_EX on it, 0 = nobody]
    pc,           \* [process -> position in the operation it runs]
    loc,          \* [process -> the locals of its current (or last) call]
    ncalls,       \* operations started so far
    nAppend,      \* [account -> lines appended by record_trade_to_file] (history)
    rpc,          \* _ainvoke_with_retry: position
    rcfg,         \* _ainvoke_with_retry: [max_retries, base_delay]
    attempt,      \* _ainvoke_with_retry: the loop variable
    rlog,         \* _ainvoke_with_retry: what it did (calls, sleeps, outcome)
    spc,          \* session run: position
    scfg,         \* session run: [mode, max_steps]
    current_step, \* session run: the loop counter
    sess,         \* session run: final_response, transcript, result (and history)
    mpc,          \* get_market_status: position
    now_utc,      \* get_market_status: the instant datetime.now(UTC) gives
    market,       \* get_market_status: its argument
    status,       \* get_market_status: its result
    kpc,          \* scheduler_loop: position
    kcfg,         \* scheduler_loop: [market, only_trading_hours, interval_minutes]
    kstatus,      \* scheduler_loop: status of the current cycle
    run_count,    \* scheduler_loop: run_count
    klog,         \* scheduler_loop: what it did (history)
    summary,      \* get_position_summary: its last result (and the file content it read)
    pcfg,         \* ledger content: the agent [initial_cash, stock_symbols, market]
    broker,       \* ledger content: the brokerage account [cash, holdings]
    pfile,        \* ledger content: the lines of position.jsonl with their positions
    plast,        \* ledger content: arguments of the last buy_futu call (history)
    gpc,          \* run_trading: position
    gcfg,         \* run_trading: config["models"], each [enabled, api_key, signature]
    gidx,         \* run_trading: index of the for loop over enabled_models
    glog,         \* run_trading: what it did (history)
    can_sell,     \* brokerage: can_sell_qty (= qty) of the one holding of OrderAccount
    sent,         \* brokerage: quantity of the sell orders received since that holding last changed
    oreq,         \* [process -> arguments and course of its current (or last) buy_futu / sell_futu call] (history)
    olog,         \* brokerage: the accepted orders of OrderAccount, in the order received (history)
    olast         \* buy_futu / sell_futu: the last call that returned an error or raised (history)

ledgerVars == <<fileExists, ledger, flock, pc, loc, ncalls, nAppend>>
retryVars == <<rpc, rcfg, attempt, rlog>>
sessVars == <<spc, scfg, current_step, sess>>
marketVars == <<mpc, now_utc, market, status>>
schedVars == <<kpc, kcfg, kstatus, run_count, klog>>
readVars == <<summary>>
posVars == <<pcfg, broker, pfile, plast>>
runVars == <<gpc, gcfg, gidx, glog>>
orderVars == <<can_sell, sent, oreq, olog, olast>>
nonLedgerVars == <<retryVars, sessVars, marketVars, schedVars, readVars, posVars, runVars, orderVars>>
nonRetryVars == <<ledgerVars, sessVars, marketVars, schedVars, readVars, posVars, runVars, orderVars>>
nonSessVars == <<ledgerVars, retryVars, marketVars, schedVars, readVars, posVars, runVars, orderVars>>
nonMarketVars == <<ledgerVars, retryVars, sessVars, schedVars, readVars, posVars, runVars, orderVars>>
nonSchedVars == <<ledgerVars, retryVars, sessVars, marketVars, readVars, posVars, runVars, orderVars>>
nonSessRetryVars == <<ledgerVars, marketVars, schedVars, readVars, posVars, runVars, orderVars>>
nonReadVars == <<ledgerVars, retryVars, sessVars, marketVars, schedVars, posVars, runVars, orderVars>>
nonPosVars == <<ledgerVars, retryVars, sessVars, marketVars, schedVars, readVars, runVars, orderVars>>
nonRunVars == <<ledgerVars, retryVars, sessVars, marketVars, schedVars, readVars, posVars, orderVars>>
nonLedgerOrderVars == <<retryVars, sessVars, marketVars, schedVars, readVars, posVars, runVars>>
nonOrderVars == <<ledgerVars, retryVars, sessVars, marketVars, schedVars, readVars, posVars, runVars>>
vars == <<ledgerVars, retryVars, sessVars, marketVars, schedVars, readVars, posVars, runVars, orderVars>>

\* ------------------------------------------------------------ ledger lines
\* A line json.loads cannot parse (the rest of a line another write ran over).
CorruptLine == [id |-> 0, action |-> "corrupt", cash |-> 0, hasCash |-> FALSE]

\* The beginning of a line whose write was cut short: no newline ends it, so
\* it is the last thing in the file.
PartialLine == [id |-> 0, action |-> "partial", cash |-> 0, hasCash |-> FALSE]

Parseable(e) == e.action \notin {"corrupt", "partial"}

\* register_agent's line: id 0, positions = {CASH: initial_cash, symbol: 0, ...}.
RegistrationEntry(cash) ==
    [id |-> 0, action |-> "reg", cash |-> cash, hasCash |-> TRUE]

\* record_trade_to_file's line: id current_id + 1, this_action, positions
\* (positions holds CASH only when accinfo_query succeeded). buy_futu and
\* sell_futu differ in the side of the order and in this_action["action"];
\* both are "trade" here.
TradeEntry(current_id, hasCash) ==
    [id |-> current_id + 1, action |-> "trade", cash |-> 0, hasCash |-> hasCash]

RECURSIVE ScanMaxId(_, _)
\* The scan of record_trade_to_file: current_id = 0, then over the lines
\* max(current_id, record["id"]), a line that does not parse being skipped.
ScanMaxId(lines, current_id) ==
    IF lines = <<>> THEN current_id
    ELSE LET e == Head(lines)
             m == IF Parseable(e) /\ e.id > current_id THEN e.id ELSE current_id
         IN ScanMaxId(Tail(lines), m)

\* What record_trade_to_file reads: nothing when the file does not exist.
ReadMaxId(ex, led, a) == IF ex[a] THEN ScanMaxId(led[a], 0) ELSE 0

\* A write of `e` at offset 0 of a file opened with "w" before other processes
\* appended `lines` to it: `e` runs over the first line; `rel` is the length of
\* e's line relative to that first line.
OverwriteAtStart(lines, e, rel) ==
    IF lines = <<>> THEN <<e>>
    ELSE CASE rel = "same" -> <<e>> \o Tail(lines)
           [] rel = "shorter" -> <<e, CorruptLine>> \o Tail(lines)
           [] OTHER -> IF Len(lines) = 1 THEN <<e>>
                       ELSE <<e, CorruptLine>> \o Tail(Tail(lines))

\* The file does not end with a newline.
EndsWithPartial(lines) == lines # <<>> /\ lines[Len(lines)].action = "partial"

\* open(position_file, "a"); f.write(json.dumps(record) + "\n"): the text goes
\* to the end of the file as it is. After a partial line it continues that
\* line, and the two together are one line that does not parse.
AppendLine(lines, e) ==
    IF EndsWithPartial(lines)
    THEN [lines EXCEPT ![Len(lines)] = CorruptLine]
    ELSE Append(lines, e)

\* The same write cut short after some of its characters.
AppendPartial(lines) ==
    IF EndsWithPartial(lines) THEN lines ELSE Append(lines, PartialLine)

\* ------------------------------------------------------------------- lock
\* Mutant of LockPath: one lock file for every signature.
LockPathShared(name) == "A1"

\* _position_lock: base_dir / name / ".position.lock", one lock file per name.
LockPath(name) == name

\* Mutant of CanLock: the lock is taken without waiting for its holder.
CanLockAnyway(l, path) == TRUE

\* fcntl.flock(fd, LOCK_EX) returns only when no other open file holds the lock.
CanLock(l, path) == l[path] = 0

\* _Lock.__enter__
LockEnter(l, path, p) == [l EXCEPT ![path] = p]

\* Mutant of LockExit: the lock stays with the process that leaves the block.
LockExitKeepsLock(l, path, raised) == l

\* Mutant of LockExit: the lock is released on a normal exit only.
LockExitNoRelease(l, path, raised) == IF raised THEN l ELSE [l EXCEPT ![path] = 0]

\* _Lock.__exit__(exc_type, exc, tb): LOCK_UN then close, whatever exc_type is.
LockExit(l, path, raised) == [l EXCEPT ![path] = 0]

\* ------------------------------------------------------------------ locals
IdleLocals ==
    [op |-> "none", signature |-> NoSignature, current_id |-> 0,
     accepted |-> FALSE, wrote |-> 0, cash |-> 0, hasCash |-> FALSE,
     existed |-> FALSE, result |-> "none"]

\* What stays of a call once it returned or raised: its result
\* ("exists" / "registered" for register_agent; "rejected" for an error result
\* from before the `with`, "order_failed" for the one from inside it, "success",
\* or "raised").
Returned(result) == [IdleLocals EXCEPT !.result = result]

\* Positions inside the `with _position_lock(signature):` block.
LockedPcs == {"place", "scan", "append", "ret"}

\* Mutant of LedgerExists: the existing file is not seen.
LedgerNeverExists(ex, a) == FALSE

\* os.path.exists(self.position_file)
LedgerExists(ex, a) == ex[a]

\* ------------------------------------------------------- register_agent
\* register_agent up to its exists check: returns when the file is there,
\* otherwise creates the position directory and goes on to open the file.
RegisterAgent(p, a, cash) ==
    /\ pc[p] = "idle"
    /\ ncalls < MaxCalls
    /\ ncalls' = ncalls + 1
    /\ LET l == [IdleLocals EXCEPT !.op = "register", !.signature = a,
                                   !.cash = cash, !.existed = fileExists[a]]
       IN loc' = [loc EXCEPT ![p] = IF LedgerExists(fileExists, a)
                                    THEN Returned("exists") ELSE l]
    /\ pc' = [pc EXCEPT ![p] = IF LedgerExists(fileExists, a)
                               THEN "idle" ELSE "reg_open"]
    /\ UNCHANGED <<fileExists, ledger, flock, nAppend>>
    /\ UNCHANGED nonLedgerVars

\* open(self.position_file, "w"): creates the file, or truncates it to nothing.
RegisterOpen(p) ==
    /\ pc[p] = "reg_open"
    /\ fileExists' = [fileExists EXCEPT ![loc[p].signature] = TRUE]
    /\ ledger' = [ledger EXCEPT ![loc[p].signature] = <<>>]
    /\ pc' = [pc EXCEPT ![p] = "reg_write"]
    /\ UNCHANGED <<flock, loc, ncalls, nAppend>>
    /\ UNCHANGED nonLedgerVars

\* f.write(...) and the close that flushes it: the line goes to offset 0.
RegisterWrite(p, rel) ==
    /\ pc[p] = "reg_write"
    /\ (ledger[loc[p].signature] = <<>>) => rel = "same"
    /\ ledger' = [ledger EXCEPT ![loc[p].signature] =
                    OverwriteAtStart(@, RegistrationEntry(loc[p].cash), rel)]
    /\ loc' = [loc EXCEPT ![p] = Returned("registered")]
    /\ pc' = [pc EXCEPT ![p] = "idle"]
    /\ UNCHANGED <<fileExists, flock, ncalls, nAppend>>
    /\ UNCHANGED nonLedgerVars

\* ------------------------------------------------- buy_futu / sell_futu
\* buy_futu and sell_futu run the same steps. The call up to the `with`:
\* SIGNATURE, the amount, the quote and (sell) the holding are checked; a
\* rejected call returns an error.
TradeStartBody(p, sig, amountOk, checksOk) ==
    /\ pc[p] = "idle"
    /\ ncalls < MaxCalls
    /\ ncalls' = ncalls + 1
    /\ LET ok == sig # NoSignature /\ amountOk /\ checksOk
           l == [IdleLocals EXCEPT !.op = "trade", !.signature = sig]
       IN /\ loc' = [loc EXCEPT ![p] = IF ok THEN l ELSE Returned("rejected")]
          /\ pc' = [pc EXCEPT ![p] = IF ok THEN "lock" ELSE "idle"]
    /\ UNCHANGED <<fileExists, ledger, flock, nAppend>>

TradeStart(p, sig, amountOk, checksOk) == TradeStartBody(p, sig, amountOk, checksOk) /\ UNCHANGED nonLedgerVars

\* with _position_lock(signature): __enter__ blocks in flock(LOCK_EX).
AcquireBody(p) ==
    /\ pc[p] = "lock"
    /\ CanLock(flock, LockPath(loc[p].signature))
    /\ flock' = LockEnter(flock, LockPath(loc[p].signature), p)
    /\ pc' = [pc EXCEPT ![p] = "place"]
    /\ UNCHANGED <<fileExists, ledger, loc, ncalls, nAppend>>

Acquire(p) == AcquireBody(p) /\ UNCHANGED nonLedgerVars

\* Mutant of LockCreationPcs: the lock file is also created after the order.
LockCreationPcsLate == {"lock", "scan"}

\* Where a call is when _position_lock(signature) builds the lock: at the
\* `with` statement, before the block.
LockCreationPcs == {"lock"}

\* _Lock.__init__ raises (base_dir.mkdir or open(self.lock_path, "a+") fails),
\* or flock does: the exception leaves buy_futu / sell_futu before the block
\* is entered, so __exit__ is not run.
LockFail(p) ==
    /\ pc[p] \in LockCreationPcs
    /\ loc' = [loc EXCEPT ![p] = Returned("lock_error")]
    /\ pc' = [pc EXCEPT ![p] = "idle"]
    /\ UNCHANGED <<fileExists, ledger, flock, ncalls, nAppend>>
    /\ UNCHANGED nonLedgerVars

\* place_order; on RET_OK the position and funds queries that follow it.
\* A status other than RET_OK returns the error from inside the block.
PlaceOrderBody(p, retOk, fundsOk) ==
    /\ pc[p] = "place"
    /\ IF retOk
       THEN /\ loc' = [loc EXCEPT ![p].accepted = TRUE, ![p].hasCash = fundsOk]
            /\ pc' = [pc EXCEPT ![p] = "scan"]
            /\ UNCHANGED flock
       ELSE /\ loc' = [loc EXCEPT ![p] = Returned("order_failed")]
            /\ pc' = [pc EXCEPT ![p] = "idle"]
            /\ flock' = LockExit(flock, LockPath(loc[p].signature), FALSE)
    /\ UNCHANGED <<fileExists, ledger, ncalls, nAppend>>

PlaceOrder(p, retOk, fundsOk) == PlaceOrderBody(p, retOk, fundsOk) /\ UNCHANGED nonLedgerVars

\* record_trade_to_file, first half: read the current maximum id.
RecordScanBody(p) ==
    /\ pc[p] = "scan"
    /\ loc' = [loc EXCEPT ![p].current_id =
                 ReadMaxId(fileExists, ledger, loc[p].signature)]
    /\ pc' = [pc EXCEPT ![p] = "append"]
    /\ UNCHANGED <<fileExists, ledger, flock, ncalls, nAppend>>

RecordScan(p) == RecordScanBody(p) /\ UNCHANGED nonLedgerVars

\* record_trade_to_file, second half: open(position_file, "a") and write.
RecordAppendBody(p) ==
    /\ pc[p] = "append"
    /\ fileExists' = [fileExists EXCEPT ![loc[p].signature] = TRUE]
    /\ ledger' = [ledger EXCEPT ![loc[p].signature] =
                    AppendLine(@, TradeEntry(loc[p].current_id, loc[p].hasCash))]
    /\ nAppend' = [nAppend EXCEPT ![loc[p].signature] = @ + 1]
    /\ loc' = [loc EXCEPT ![p].wrote = @ + 1]
    /\ pc' = [pc EXCEPT ![p] = "ret"]
    /\ UNCHANGED <<flock, ncalls>>

RecordAppend(p) == RecordAppendBody(p) /\ UNCHANGED nonLedgerVars

\* write_config_value("IF_TRADE", True); return {...}: leaves the block.
TradeReturnBody(p) ==
    /\ pc[p] = "ret"
    /\ flock' = LockExit(flock, LockPath(loc[p].signature), FALSE)
    /\ loc' = [loc EXCEPT ![p] = Returned("success")]
    /\ pc' = [pc EXCEPT ![p] = "idle"]
    /\ UNCHANGED <<fileExists, ledger, ncalls, nAppend>>

TradeReturn(p) == TradeReturnBody(p) /\ UNCHANGED nonLedgerVars

\* An exception or an interruption (KeyboardInterrupt, a raising brokerage or
\* file call) while waiting for the lock or inside the block: the `with`
\* statement runs __exit__ when the block was entered.
InterruptBody(p) ==
    /\ pc[p] \in LockedPcs \cup {"lock"}
    /\ flock' = IF pc[p] \in LockedPcs
                THEN LockExit(flock, LockPath(loc[p].signature), TRUE)
                ELSE flock
    /\ loc' = [loc EXCEPT ![p] = Returned("raised")]
    /\ pc' = [pc EXCEPT ![p] = "idle"]
    /\ UNCHANGED <<fileExists, ledger, ncalls, nAppend>>

Interrupt(p) == InterruptBody(p) /\ UNCHANGED nonLedgerVars

\* The writer dies, or its write fails, in the middle of the line: part of the
\* line is in the file, the lock is released (__exit__, or the close of the
\* descriptor when the process ends).
CrashInWrite(p) ==
    /\ pc[p] = "append"
    /\ fileExists' = [fileExists EXCEPT ![loc[p].signature] = TRUE]
    /\ ledger' = [ledger EXCEPT ![loc[p].signature] = AppendPartial(@)]
    /\ flock' = LockExit(flock, LockPath(loc[p].signature), TRUE)
    /\ loc' = [loc EXCEPT ![p] = Returned("raised")]
    /\ pc' = [pc EXCEPT ![p] = "idle"]
    /\ UNCHANGED <<ncalls, nAppend>>
    /\ UNCHANGED nonLedgerVars

\* ------------------------------------------------- get_position_summary
\* The account whose ledger the agent reads.
ReadAccount == "A1"

NoSummary ==
    [outcome |-> "none", total_records |-> 0, latest |-> CorruptLine,
     existed |-> FALSE, read |-> <<>>]

\* get_position_summary: an error result when the file does not exist or holds
\* no line; json.loads(line) of every line, outside any try, so that a line
\* that does not parse raises; otherwise the last record and the number of
\* records. existed and read are history: the file as the call found it.
get_position_summary(ex, led, a) ==
    IF ~ex[a]
    THEN [NoSummary EXCEPT !.outcome = "error"]
    ELSE IF \E i \in 1..Len(led[a]) : ~Parseable(led[a][i])
         THEN [NoSummary EXCEPT !.outcome = "raised", !.existed = TRUE, !.read = led[a]]
         ELSE IF led[a] = <<>>
              THEN [NoSummary EXCEPT !.outcome = "error", !.existed = TRUE]
              ELSE [outcome |-> "ok", total_records |-> Len(led[a]),
                    latest |-> led[a][Len(led[a])], existed |-> TRUE,
                    read |-> led[a]]

\* One call of get_position_summary.
GetPositionSummary ==
    /\ summary' = get_position_summary(fileExists, ledger, ReadAccount)
    /\ summary' # summary
    /\ UNCHANGED nonReadVars

\* ------------------------------------------- the positions of a ledger line
\* What register_agent and buy_futu put into the "positions" and "this_action"
\* of the lines they write, for one account whose file does not exist at first.
Symbols == {"X", "Y"}
SymbolLists == {<<"X", "Y">>, <<"X">>}
InitialCash == {100000, 1000}
Amounts == {10}
Prices == {50, 20}

\* convert_symbol_to_futu: the market-qualified code, "HK." or "US." before the
\* symbol (a Hong Kong symbol is also padded to five digits).
convert_symbol_to_futu(symbol, m) ==
    IF m = "HK" THEN "HK." \o symbol ELSE "US." \o symbol

Codes(m) == {convert_symbol_to_futu(s, m) : s \in Symbols}

NoAction == [action |-> "none", symbol |-> "", amount |-> 0, price |-> 0]

\* init_position = {"CASH": self.initial_cash}; init_position[symbol] = 0 for
\* every symbol of self.stock_symbols.
init_position(initial_cash, stock_symbols) ==
    [k \in {"CASH"} \cup {stock_symbols[i] : i \in 1..Len(stock_symbols)} |->
        IF k = "CASH" THEN initial_cash ELSE 0]

\* position_list_query: a row for every holding of the account.
PositionRows(b) == {c \in DOMAIN b.holdings : b.holdings[c] > 0}

\* positions_dict: row['code'] -> row['qty'] for the rows of a successful
\* position_list_query, and "CASH" -> funds.iloc[0]['cash'] when accinfo_query
\* succeeded.
positions_dict(b, posOk, fundsOk) ==
    [k \in (IF posOk THEN PositionRows(b) ELSE {})
            \cup (IF fundsOk THEN {"CASH"} ELSE {}) |->
        IF k = "CASH" THEN b.cash ELSE b.holdings[k]]

\* The brokerage account after it has executed a buy of `amount` at `price`.
Filled(b, code, amount, price) ==
    [cash |-> b.cash - amount * price,
     holdings |-> [b.holdings EXCEPT ![code] = @ + amount]]

\* current_id of record_trade_to_file over these lines.
PosMaxId(lines) ==
    LET ids == {lines[i].id : i \in 1..Len(lines)} \cup {0}
    IN CHOOSE m \in ids : \A n \in ids : n <= m

\* register_agent on an account without ledger: the line id 0 with
\* init_position.
PosRegister ==
    /\ pfile = <<>>
    /\ pfile' = <<[id |-> 0, this_action |-> NoAction,
                   positions |-> init_position(pcfg.initial_cash, pcfg.stock_symbols)]>>
    /\ UNCHANGED <<pcfg, broker, plast>>
    /\ UNCHANGED nonPosVars

\* buy_futu(symbol, amount) whose order the brokerage accepts, the quote being
\* last_price; the brokerage has executed the order, or has not yet, when the
\* position and funds queries are made.
PosBuy(symbol, amount, last_price, filled, posOk, fundsOk) ==
    /\ Len(SelectSeq(pfile, LAMBDA e : e.this_action.action = "buy")) < MaxTrades
    /\ LET code == convert_symbol_to_futu(symbol, pcfg.market)
           after == IF filled THEN Filled(broker, code, amount, last_price) ELSE broker
       IN /\ after.cash >= 0
          /\ broker' = after
          /\ pfile' = Append(pfile,
                 [id |-> PosMaxId(pfile) + 1,
                  this_action |-> [action |-> "buy", symbol |-> code,
                                   amount |-> amount, price |-> last_price],
                  positions |-> positions_dict(after, posOk, fundsOk)])
          /\ plast' = [symbol |-> symbol, amount |-> amount, price |-> last_price,
                       filled |-> filled]
    /\ UNCHANGED pcfg
    /\ UNCHANGED nonPosVars

\* Mutant of HasNextAttempt: the range has one attempt more.
HasNextAttemptInclusive(att, max_retries) == att <= max_retries

\* -------------------------------------------------- _ainvoke_with_retry
\* for attempt in range(1, self.max_retries + 1): is there a next value?
HasNextAttempt(att, max_retries) == att + 1 <= max_retries

\* Mutant of IsFinalAttempt: the first failure is raised.
IsFinalAttemptFirst(att, max_retries) == att = 1

\* Mutant of IsFinalAttempt: gives up one attempt early.
IsFinalAttemptEarly(att, max_retries) == att >= max_retries - 1

\* if attempt == self.max_retries: raise e
IsFinalAttempt(att, max_retries) == att = max_retries

\* self.base_delay * attempt
BackoffDelay(base_delay, att) == base_delay * att

\* Mutant of SleepsAfter: the sleep is not made.
SleepsAfterNoSleep(sleeps, base_delay, att) == sleeps

\* await asyncio.sleep(self.base_delay * attempt), recorded in the sleeps made.
SleepsAfter(sleeps, base_delay, att) == Append(sleeps, BackoffDelay(base_delay, att))

EmptyLog ==
    [calls |-> 0, sleeps |-> <<>>, errs |-> <<>>, okAt |-> 0,
     returned |-> "none", raised |-> "none"]

\* The loop takes its next attempt and self.agent.ainvoke(...) returns a
\* response: `return await ...` ends the wrapper with it.
AinvokeOk ==
    /\ rpc = "loop"
    /\ HasNextAttempt(attempt, rcfg.max_retries)
    /\ attempt' = attempt + 1
    /\ rlog' = [rlog EXCEPT !.calls = @ + 1,
                            !.okAt = IF @ = 0 THEN rlog.calls + 1 ELSE @,
                            !.returned = "response"]
    /\ rpc' = "returned"
    /\ UNCHANGED rcfg
    /\ UNCHANGED nonRetryVars

\* The loop takes its next attempt and self.agent.ainvoke(...) raises e (an
\* Exception): re-raised on the final attempt, otherwise the wrapper goes on
\* to sleep.
AinvokeFail(e) ==
    /\ rpc = "loop"
    /\ HasNextAttempt(attempt, rcfg.max_retries)
    /\ attempt' = attempt + 1
    /\ IF IsFinalAttempt(attempt + 1, rcfg.max_retries)
       THEN /\ rpc' = "raised"
            /\ rlog' = [rlog EXCEPT !.calls = @ + 1, !.errs = Append(@, e),
                                    !.raised = e]
       ELSE /\ rpc' = "sleep"
            /\ rlog' = [rlog EXCEPT !.calls = @ + 1, !.errs = Append(@, e)]
    /\ UNCHANGED rcfg
    /\ UNCHANGED nonRetryVars

\* await asyncio.sleep(self.base_delay * attempt), then the next iteration.
RetrySleep ==
    /\ rpc = "sleep"
    /\ rlog' = [rlog EXCEPT !.sleeps = SleepsAfter(@, rcfg.base_delay, attempt)]
    /\ rpc' = "loop"
    /\ UNCHANGED <<rcfg, attempt>>
    /\ UNCHANGED nonRetryVars

\* The range is exhausted: the function ends without a return statement (None).
RetryFallThrough ==
    /\ rpc = "loop"
    /\ ~HasNextAttempt(attempt, rcfg.max_retries)
    /\ rpc' = "returned"
    /\ rlog' = [rlog EXCEPT !.returned = "None"]
    /\ UNCHANGED <<rcfg, attempt>>
    /\ UNCHANGED nonRetryVars

\* ------------------------------- run_trading_session / run_analysis_session
\* A text is a sequence of characters: "<" and ">", the characters the stop
\* token starts and ends with (each alone is ordinary text), and " ", whitespace.
Chars == {"<", ">", " "}

\* STOP_SIGNAL = "<FINISH_SIGNAL>": a string of several characters that starts
\* and ends with characters found nowhere else in it.
STOP_SIGNAL == <<"<", ">">>

Texts == UNION {[1..n -> Chars] : n \in 0..MaxTextLen}

\* STOP_SIGNAL in agent_response
Contains(text, tok) ==
    \E i \in 1..Len(text) :
        i + Len(tok) - 1 <= Len(text) /\ SubSeq(text, i, i + Len(tok) - 1) = tok

RECURSIVE Replace(_, _)
\* str.replace(tok, ""): one pass from the left over non-overlapping occurrences.
Replace(text, tok) ==
    IF Len(text) < Len(tok) THEN text
    ELSE IF SubSeq(text, 1, Len(tok)) = tok
         THEN Replace(SubSeq(text, Len(tok) + 1, Len(text)), tok)
         ELSE <<Head(text)>> \o Replace(Tail(text), tok)

RECURSIVE LStrip(_)
LStrip(text) ==
    IF text # <<>> /\ Head(text) = " " THEN LStrip(Tail(text)) ELSE text

RECURSIVE RStrip(_)
RStrip(text) ==
    IF text # <<>> /\ text[Len(text)] = " "
    THEN RStrip(SubSeq(text, 1, Len(text) - 1)) ELSE text

\* str.strip()
Strip(text) == RStrip(LStrip(text))

\* final_response.replace(STOP_SIGNAL, "").strip()
FinalText(final_response) == Strip(Replace(final_response, STOP_SIGNAL))

\* run_trading_session has no return statement.
NoResult == <<"None">>

\* Mutant of HasNextStep: one step too many.
HasNextStepInclusive(step, max_steps) == step <= max_steps

\* while current_step < self.max_steps
HasNextStep(step, max_steps) == step < max_steps

\* The locals of a run and what it leaves behind. logged: calls of
\* _log_message; lastLogged: the assistant content of the last of them;
\* terminalLogged: whether that content was logged by the stop branch.
\* invoked, lastObserved, firstStop and exit are history.
EmptySession ==
    [final_response |-> <<>>, logged |-> 0, lastLogged |-> <<>>,
     terminalLogged |-> FALSE, result |-> NoResult,
     invoked |-> 0, lastObserved |-> <<>>, firstStop |-> 0, exit |-> "none"]

\* One iteration whose _ainvoke_with_retry returns a response of which
\* extract_conversation(response, "final") is `text`.
StepResponseBody(text) ==
    /\ spc = "loop"
    /\ HasNextStep(current_step, scfg.max_steps)
    /\ current_step' = current_step + 1
    /\ LET stop == Contains(text, STOP_SIGNAL)
           seen == [sess EXCEPT
                      !.invoked = @ + 1,
                      !.lastObserved = text,
                      !.firstStop = IF @ = 0 /\ stop THEN current_step + 1 ELSE @,
                      !.final_response =
                          IF scfg.mode = "analysis" THEN text ELSE @]
       IN IF stop
          THEN /\ spc' = "break"
               /\ sess' = IF scfg.mode = "trading"
                          THEN [seen EXCEPT !.logged = @ + 1,
                                            !.lastLogged = text,
                                            !.terminalLogged = TRUE]
                          ELSE seen
          ELSE /\ spc' = "loop"
               /\ sess' = IF scfg.mode = "trading"
                          THEN [seen EXCEPT !.logged = @ + 2,
                                            !.lastLogged = text]
                          ELSE seen
    /\ UNCHANGED scfg

\* That iteration in a run whose decision step is not followed further.
StepResponse(text) == StepResponseBody(text) /\ UNCHANGED nonSessVars

\* One iteration whose _ainvoke_with_retry raises: except Exception: raise.
StepRaiseBody ==
    /\ spc = "loop"
    /\ HasNextStep(current_step, scfg.max_steps)
    /\ current_step' = current_step + 1
    /\ sess' = [sess EXCEPT !.invoked = @ + 1, !.exit = "raised"]
    /\ spc' = "raised"
    /\ UNCHANGED scfg

StepRaise == StepRaiseBody /\ UNCHANGED nonSessVars

\* The loop is left, by break or because its condition is false, and the
\* function returns.
SessionReturn ==
    /\ \/ spc = "break"
       \/ spc = "loop" /\ ~HasNextStep(current_step, scfg.max_steps)
    /\ sess' = [sess EXCEPT
                  !.exit = IF spc = "break" THEN "signal" ELSE "step_limit",
                  !.result = IF scfg.mode = "analysis"
                             THEN FinalText(sess.final_response) ELSE NoResult]
    /\ spc' = "done"
    /\ UNCHANGED <<scfg, current_step>>
    /\ UNCHANGED nonSessVars

\* ------------------------------------ a session run with its retry wrapper
\* The responses followed in such a run: without the stop token, with it, and
\* one with whitespace around other text.
RunTexts == {<<>>, STOP_SIGNAL, <<" ", ">", " ">>}

\* response = await self._ainvoke_with_retry(message): the wrapper starts; the
\* calls made by the wrappers of the earlier steps stay counted.
InvokeBegin ==
    /\ spc = "loop"
    /\ HasNextStep(current_step, scfg.max_steps)
    /\ rpc = "idle"
    /\ rpc' = "loop"
    /\ attempt' = 0
    /\ rlog' = [EmptyLog EXCEPT !.calls = rlog.calls]
    /\ UNCHANGED rcfg
    /\ UNCHANGED <<sessVars, nonSessRetryVars>>

\* The wrapper returned a response: the rest of the iteration.
InvokeReturned(text) ==
    /\ rpc = "returned" /\ rlog.returned = "response"
    /\ StepResponseBody(text)
    /\ rpc' = "idle"
    /\ UNCHANGED <<rcfg, attempt, rlog>>
    /\ UNCHANGED nonSessRetryVars

\* The wrapper returned None (no attempt was made): extract_conversation(None,
\* "final") raises, or gives something `STOP_SIGNAL in` raises on, or gives a
\* text.
InvokeReturnedNone ==
    /\ rpc = "returned" /\ rlog.returned = "None"
    /\ \/ StepRaiseBody
       \/ \E text \in RunTexts : StepResponseBody(text)
    /\ rpc' = "idle"
    /\ UNCHANGED <<rcfg, attempt, rlog>>
    /\ UNCHANGED nonSessRetryVars

\* The wrapper raised the failure of its last attempt: except Exception: raise.
InvokeRaised ==
    /\ rpc = "raised"
    /\ StepRaiseBody
    /\ rpc' = "idle"
    /\ UNCHANGED <<rcfg, attempt, rlog>>
    /\ UNCHANGED nonSessRetryVars

\* ---------------------------------------------------- get_market_status
\* Market identifiers: the two configured ones, and one that is neither.
Markets == {"US", "HK"}
MarketIds == Markets \cup {"us"}

\* An instant: its weekday (0 = Monday .. 6 = Sunday), minute of the day and
\* second in UTC; dst tells whether America/New_York is on daylight time then.
Instants ==
    [weekday : 0..6, minute : 0..1439, second : {0, 59}, dst : BOOLEAN]

\* get_market_hours: the zone and the windows (start hour, start minute, end
\* hour, end minute); every identifier other than "US" gets the HK table.
get_market_hours(m) ==
    IF m = "US"
    THEN [timezone |-> "America/New_York",
          windows |-> <<[name |-> "PRE_MARKET", hours |-> <<4, 0, 9, 30>>],
                        [name |-> "REGULAR", hours |-> <<9, 30, 16, 0>>],
                        [name |-> "AFTER_HOURS", hours |-> <<16, 0, 20, 0>>]>>]
    ELSE [timezone |-> "Asia/Hong_Kong",
          windows |-> <<[name |-> "MORNING", hours |-> <<9, 30, 12, 0>>],
                        [name |-> "AFTERNOON", hours |-> <<13, 0, 16, 0>>]>>]

\* ZoneInfo: minutes east of UTC. Hong Kong is UTC+8 all year; New York is
\* UTC-5, UTC-4 on daylight time.
UtcOffset(tz, dst) ==
    IF tz = "Asia/Hong_Kong" THEN 480 ELSE IF dst THEN -240 ELSE -300

\* Mutant of astimezone: the UTC wall clock is taken for the local one.
astimezoneUtc(t, tz) == [weekday |-> t.weekday, minute |-> t.minute, second |-> t.second]

\* now_utc.astimezone(tz): the local weekday, minute of day and second.
astimezone(t, tz) ==
    LET shifted == t.minute + UtcOffset(tz, t.dst)
        day == IF shifted < 0 THEN -1 ELSE IF shifted >= 1440 THEN 1 ELSE 0
    IN [weekday |-> (t.weekday + day + 7) % 7,
        minute |-> (shifted + 1440) % 1440,
        second |-> t.second]

\* hours[name][0] * 60 + hours[name][1]
WindowStart(w) == w.hours[1] * 60 + w.hours[2]

\* Mutant of WindowEnd: the minutes of the end are dropped.
WindowEndHourOnly(w) == w.hours[3] * 60

\* hours[name][2] * 60 + hours[name][3]
WindowEnd(w) == w.hours[3] * 60 + w.hours[4]

\* Mutant of InWindow: start-exclusive, end-inclusive.
InWindowShifted(w, current_time) ==
    WindowStart(w) < current_time /\ current_time <= WindowEnd(w)

\* start <= current_time < end
InWindow(w, current_time) ==
    WindowStart(w) <= current_time /\ current_time < WindowEnd(w)

\* weekday >= 5
IsWeekendDay(weekday) == weekday >= 5

\* Mutant of ReturnsWeekend: Saturday goes on to the windows.
ReturnsWeekendSundayOnly(weekday) == weekday >= 6

\* if weekday >= 5: result["session"] = "WEEKEND"; return result
ReturnsWeekend(weekday) == weekday >= 5

RECURSIVE FirstWindow(_, _)
\* The if / elif chain over the windows: the first that contains current_time.
FirstWindow(windows, current_time) ==
    IF windows = <<>> THEN [session |-> "CLOSED", is_trading |-> FALSE]
    ELSE IF InWindow(Head(windows), current_time)
         THEN [session |-> Head(windows).name, is_trading |-> TRUE]
         ELSE FirstWindow(Tail(windows), current_time)

\* get_market_status(market), the clock reading t.
MarketStatus(m, t) ==
    LET hours == get_market_hours(m)
        now_market == astimezone(t, hours.timezone)
        current_time == now_market.minute
        weekday == now_market.weekday
        found == FirstWindow(hours.windows, current_time)
    IN IF ReturnsWeekend(weekday)
       THEN [market |-> m, weekday |-> weekday,
             is_weekend |-> IsWeekendDay(weekday),
             session |-> "WEEKEND", is_trading |-> FALSE]
       ELSE [market |-> m, weekday |-> weekday,
             is_weekend |-> IsWeekendDay(weekday),
             session |-> found.session, is_trading |-> found.is_trading]

NoStatus ==
    [market |-> "none", weekday |-> 0, is_weekend |-> FALSE,
     session |-> "none", is_trading |-> FALSE]

\* One call of get_market_status.
get_market_status ==
    /\ mpc = "call"
    /\ status' = MarketStatus(market, now_utc)
    /\ mpc' = "done"
    /\ UNCHANGED <<now_utc, market>>
    /\ UNCHANGED nonMarketVars

\* ------------------------------------------------------- scheduler_loop
\* Clock readings of the cycles: Monday 02:00 UTC (HK morning window, Sunday
\* evening in New York), Saturday 02:00 UTC (HK weekend, Friday after 20:00 in
\* New York), Wednesday 15:00 UTC (HK night, New York regular session).
SchedInstants ==
    {[weekday |-> 0, minute |-> 120, second |-> 0, dst |-> FALSE],
     [weekday |-> 5, minute |-> 120, second |-> 0, dst |-> FALSE],
     [weekday |-> 2, minute |-> 900, second |-> 0, dst |-> FALSE]}

\* The account whose tools the step function's session calls, and the tool
\* server process that serves them.
SchedAccount == "A1"
ToolProc == 1

\* Mutant of ShouldRun: the trading-hours flag is not looked at.
ShouldRunAnyHours(only_trading_hours, st) == ~st.is_weekend

\* should_run: False when only_trading_hours and not is_trading, else False
\* when is_weekend, else True.
ShouldRun(only_trading_hours, st) ==
    IF only_trading_hours /\ ~st.is_trading THEN FALSE
    ELSE IF st.is_weekend THEN FALSE
    ELSE TRUE

\* Mutant of SleepSeconds: the minutes are taken for seconds.
SleepSecondsUnscaled(interval_minutes) == interval_minutes

\* await asyncio.sleep(interval_minutes * 60)
SleepSeconds(interval_minutes) == interval_minutes * 60

\* await asyncio.sleep(60) of the outer `except Exception`.
ErrorSleepSeconds == 60

\* Mutant of AfterStepException: the failure of the step function ends the loop.
AfterStepExceptionExit == "exited"

\* Inner `except Exception`: the failure is printed and the cycle goes on to
\* its sleep.
AfterStepException == "sleep"

\* Mutant of AfterInterrupt: the loop goes on with its next cycle.
AfterInterruptContinue == "check"

\* except KeyboardInterrupt: break (a cancellation leaves the function too).
AfterInterrupt == "exited"

EmptySchedLog ==
    [cycles |-> 0, kind |-> "none", invoked |-> 0, lastSleep |-> 0,
     interrupted |-> FALSE]

\* The head of a cycle: get_market_status, should_run, and when it is True
\* run_count += 1 and the call of run_trading_once.
CycleCheck(t) ==
    /\ kpc = "check"
    /\ klog.cycles < MaxCycles
    /\ LET st == MarketStatus(kcfg.market, t)
           run == ShouldRun(kcfg.only_trading_hours, st)
       IN /\ kstatus' = st
          /\ run_count' = IF run THEN run_count + 1 ELSE run_count
          /\ kpc' = IF run THEN "step" ELSE "sleep"
          /\ klog' = [klog EXCEPT !.cycles = @ + 1,
                                  !.kind = IF run THEN "ran" ELSE "skipped",
                                  !.invoked = IF run THEN @ + 1 ELSE @]
    /\ UNCHANGED kcfg
    /\ UNCHANGED nonSchedVars

\* An Exception raised in the cycle outside the step function (by
\* get_market_status or a print): the outer `except Exception`.
CycleError ==
    /\ kpc = "check"
    /\ klog.cycles < MaxCycles
    /\ klog' = [klog EXCEPT !.cycles = @ + 1, !.kind = "cycle_error"]
    /\ kpc' = "errsleep"
    /\ UNCHANGED <<kcfg, kstatus, run_count>>
    /\ UNCHANGED nonSchedVars

\* The session of the step function calls buy_futu / sell_futu on the tool
\* server.
ToolCall ==
    /\ kpc = "step"
    /\ TradeStart(ToolProc, SchedAccount, TRUE, TRUE)

\* run_trading_once returns, no tool call being awaited.
StepReturn ==
    /\ kpc = "step"
    /\ pc[ToolProc] = "idle"
    /\ kpc' = "sleep"
    /\ UNCHANGED <<kcfg, kstatus, run_count, klog>>
    /\ UNCHANGED nonSchedVars

\* run_trading_once raises an Exception.
StepException ==
    /\ kpc = "step"
    /\ kpc' = AfterStepException
    /\ klog' = [klog EXCEPT !.kind = "step_error"]
    /\ UNCHANGED <<kcfg, kstatus, run_count>>
    /\ UNCHANGED nonSchedVars

\* The sleep between two cycles ends.
CycleSleep ==
    /\ kpc = "sleep"
    /\ klog' = [klog EXCEPT !.lastSleep = SleepSeconds(kcfg.interval_minutes)]
    /\ kpc' = "check"
    /\ UNCHANGED <<kcfg, kstatus, run_count>>
    /\ UNCHANGED nonSchedVars

\* The sleep of the outer `except Exception` ends.
ErrorSleep ==
    /\ kpc = "errsleep"
    /\ klog' = [klog EXCEPT !.lastSleep = ErrorSleepSeconds]
    /\ kpc' = "check"
    /\ UNCHANGED <<kcfg, kstatus, run_count>>
    /\ UNCHANGED nonSchedVars

\* An external interrupt (KeyboardInterrupt, cancellation of the task) while
\* the loop is in the step function or in a sleep.
SchedInterrupt ==
    /\ kpc \in {"step", "sleep", "errsleep"}
    /\ kpc' = AfterInterrupt
    /\ klog' = [klog EXCEPT !.interrupted = TRUE]
    /\ UNCHANGED <<kcfg, kstatus, run_count>>
    /\ UNCHANGED nonSchedVars

\* ---------------------------------------- run_trading / run_trading_once
\* A model entry of the configuration: enabled or not, with an API key (its
\* own or the environment's) or none, with a "signature" key or none.
ModelConfigs == [enabled : BOOLEAN, api_key : BOOLEAN, signature : BOOLEAN]

ModelLists == UNION {[1..n -> ModelConfigs] : n \in 0..MaxModels}

\* Mutant of EnabledModels: only the first enabled model is taken.
EnabledModelsFirstOnly(models) ==
    LET en == SelectSeq(models, LAMBDA m : m.enabled)
    IN IF en = <<>> THEN en ELSE <<Head(en)>>

\* enabled_models = [m for m in config.get("models", []) if m.get("enabled", False)]
EnabledModels(models) == SelectSeq(models, LAMBDA m : m.enabled)

\* How the body of the for loop can end for a model that has its API key and
\* its signature: initialize raises, register_agent raises, the session
\* raises, or the session and what follows it complete.
BodyOutcomes == {"init_failed", "register_failed", "session_failed", "session_done"}

\* The outcomes in which run_trading_session was called: register_agent and
\* the seed of the session have written to the ledger and the transcript.
SessionOutcomes == {"session_failed", "session_done"}

\* The outcomes in which the model did not complete its session.
FailureOutcomes ==
    {"no_key", "no_signature", "init_failed", "register_failed", "session_failed"}

\* Mutant of AfterModelFailure: the failure of a model leaves run_trading.
AfterModelFailureRaise == "raised"

\* `continue`, after the missing key is printed and in the handler of
\* `except Exception`: the for loop goes on with the next enabled model.
AfterModelFailure == "loop"

EmptyRunLog ==
    [outcomes |-> <<>>, passes |-> 0, io |-> FALSE, configErrorAfterIo |-> FALSE]

\* run_trading up to its for loop: the configuration is loaded, the enabled
\* models are selected, and the function returns when there is none.
RunStart ==
    /\ gpc = "start"
    /\ gpc' = IF EnabledModels(gcfg.models) = <<>> THEN "returned" ELSE "loop"
    /\ gidx' = 1
    /\ UNCHANGED <<gcfg, glog>>
    /\ UNCHANGED nonRunVars

\* One iteration of the for loop. Without API key: print, continue. Without
\* "signature": model_config["signature"] raises KeyError inside the try, the
\* handler reports the failure of the model, continue. Otherwise the agent is
\* built, initialized and registered and its session is run; an exception of
\* any of them is reported by the same handler, continue.
RunModel(outcome) ==
    /\ gpc = "loop"
    /\ gidx <= Len(EnabledModels(gcfg.models))
    /\ LET model_config == EnabledModels(gcfg.models)[gidx]
       IN IF ~model_config.api_key THEN outcome = "no_key"
          ELSE IF ~model_config.signature THEN outcome = "no_signature"
          ELSE outcome \in BodyOutcomes
    /\ glog' = [outcomes |-> Append(glog.outcomes, outcome),
                passes |-> IF outcome \in SessionOutcomes
                           THEN glog.passes + 1 ELSE glog.passes,
                io |-> glog.io \/ outcome \in SessionOutcomes,
                configErrorAfterIo |->
                    glog.configErrorAfterIo \/ (outcome = "no_signature" /\ glog.io)]
    /\ gidx' = gidx + 1
    /\ gpc' = IF outcome \in FailureOutcomes THEN AfterModelFailure ELSE "loop"
    /\ UNCHANGED gcfg
    /\ UNCHANGED nonRunVars

\* The for loop is exhausted: run_trading returns, and so does
\* run_trading_once.
RunReturn ==
    /\ gpc = "loop"
    /\ gidx > Len(EnabledModels(gcfg.models))
    /\ gpc' = "returned"
    /\ UNCHANGED <<gcfg, gidx, glog>>
    /\ UNCHANGED nonRunVars

\* ------------------------------ buy_futu / sell_futu and the brokerage
\* The account whose orders and holding are followed; it holds one instrument.
OrderAccount == "A1"

Sides == {"buy", "sell"}

\* The `amount` a call receives: an int, or text that int() does not parse.
AmountArgs == [kind : {"int"}, n : 0..MaxHolding] \cup {[kind |-> "text", n |-> 0]}

\* amount = int(amount), except ValueError: return {"error": ...}
IntAmount(a) == [ok |-> a.kind = "int", n |-> IF a.kind = "int" THEN a.n ELSE 0]

\* if amount <= 0: return {"error": ...}
AmountOk(a) == IntAmount(a).ok /\ ~(IntAmount(a).n <= 0)

\* The call made before the `with` that fails, if one does: get_trade_context
\* gives None, position_list_query or get_market_snapshot a status other than
\* RET_OK.
QueryFailures == {"none", "connect", "position", "quote"}

\* Mutant of Insufficient: the sellable quantity is not compared.
InsufficientNever(can_sell_qty, amount) == FALSE

\* if can_sell_qty < amount: return {"error": ...}
Insufficient(can_sell_qty, amount) == can_sell_qty < amount

\* The checks between the amount and the `with`: the connection; for a sell
\* the position query, position_qty == 0 and the sellable quantity; the quote.
ChecksPass(side, fail, can_sell_qty, amount) ==
    /\ fail # "connect"
    /\ side = "sell" => /\ fail # "position"
                        /\ can_sell_qty # 0
                        /\ ~Insufficient(can_sell_qty, amount)
    /\ fail # "quote"

NoRequest ==
    [side |-> "none", amount |-> 0, seen |-> 0,
     locked |-> FALSE, placed |-> FALSE, wrote |-> 0]

NoOrderCall ==
    [side |-> "none", signature |-> NoSignature,
     amount |-> [kind |-> "int", n |-> 0], fail |-> "none", seen |-> 0,
     locked |-> FALSE, placed |-> FALSE, refused |-> FALSE, wrote |-> 0,
     result |-> "none"]

\* What is kept of the call of process p that ends now with `result`.
EndedCall(p, result, refused) ==
    [side |-> oreq[p].side, signature |-> OrderAccount,
     amount |-> [kind |-> "int", n |-> oreq[p].amount], fail |-> "none",
     seen |-> oreq[p].seen, locked |-> oreq[p].locked,
     placed |-> oreq[p].placed \/ refused, refused |-> refused,
     wrote |-> oreq[p].wrote, result |-> result]

\* buy_futu / sell_futu up to the `with`, with what it reads: SIGNATURE, the
\* amount, and for a sell the holding as position_list_query gives it.
OrderStart(p, side, sig, a, fail) ==
    /\ side = "buy" => fail # "position"
    /\ LET n == IntAmount(a).n
           checksOk == ChecksPass(side, fail, can_sell, n)
           ok == sig # NoSignature /\ AmountOk(a) /\ checksOk
       IN /\ TradeStartBody(p, sig, AmountOk(a), checksOk)
          /\ oreq' = [oreq EXCEPT ![p] =
                        IF ok THEN [NoRequest EXCEPT !.side = side, !.amount = n,
                                                     !.seen = can_sell]
                        ELSE NoRequest]
          /\ olast' = IF ok THEN olast
                      ELSE [NoOrderCall EXCEPT !.side = side, !.signature = sig,
                                               !.amount = a, !.fail = fail,
                                               !.seen = can_sell,
                                               !.result = "rejected"]
    /\ UNCHANGED <<can_sell, sent, olog>>
    /\ UNCHANGED nonLedgerOrderVars

\* with _position_lock(signature): the lock is taken.
OrderAcquire(p) ==
    /\ AcquireBody(p)
    /\ oreq' = [oreq EXCEPT ![p].locked = TRUE]
    /\ UNCHANGED <<can_sell, sent, olog, olast>>
    /\ UNCHANGED nonLedgerOrderVars

\* trade_ctx.place_order(qty=amount, trd_side=...): the brokerage receives the
\* order and accepts it (RET_OK) or not.
OrderPlace(p, retOk, fundsOk) ==
    /\ PlaceOrderBody(p, retOk, fundsOk)
    /\ sent' = IF oreq[p].side = "sell" THEN sent + oreq[p].amount ELSE sent
    /\ olog' = IF retOk THEN Append(olog, [proc |-> p, id |-> 0]) ELSE olog
    /\ oreq' = [oreq EXCEPT ![p] = IF retOk THEN [@ EXCEPT !.placed = TRUE]
                                   ELSE NoRequest]
    /\ olast' = IF retOk THEN olast ELSE EndedCall(p, "order_failed", TRUE)
    /\ UNCHANGED can_sell
    /\ UNCHANGED nonLedgerOrderVars

OrderScan(p) ==
    /\ RecordScanBody(p)
    /\ UNCHANGED orderVars
    /\ UNCHANGED nonLedgerOrderVars

\* The last order process p placed.
LastOrderOf(log, p) ==
    CHOOSE i \in 1..Len(log) :
        /\ log[i].proc = p
        /\ \A j \in (i + 1)..Len(log) : log[j].proc # p

\* record_trade_to_file writes the entry of the order just placed.
OrderAppend(p) ==
    /\ RecordAppendBody(p)
    /\ oreq' = [oreq EXCEPT ![p].wrote = @ + 1]
    /\ olog' = [olog EXCEPT ![LastOrderOf(olog, p)].id = loc[p].current_id + 1]
    /\ UNCHANGED <<can_sell, sent, olast>>
    /\ UNCHANGED nonLedgerOrderVars

OrderReturn(p) ==
    /\ TradeReturnBody(p)
    /\ oreq' = [oreq EXCEPT ![p] = NoRequest]
    /\ UNCHANGED <<can_sell, sent, olog, olast>>
    /\ UNCHANGED nonLedgerOrderVars

\* An exception while waiting for the lock or inside the block.
OrderInterrupt(p) ==
    /\ InterruptBody(p)
    /\ oreq' = [oreq EXCEPT ![p] = NoRequest]
    /\ olast' = EndedCall(p, "raised", FALSE)
    /\ UNCHANGED <<can_sell, sent, olog>>
    /\ UNCHANGED nonLedgerOrderVars

\* The brokerage changes the holding: it fills the sell orders it received,
\* as far as the holding goes; the next position_list_query gives the new
\* can_sell_qty.
HoldingChange ==
    /\ sent > 0
    /\ can_sell' = IF sent <= can_sell THEN can_sell - sent ELSE 0
    /\ sent' = 0
    /\ UNCHANGED <<oreq, olog, olast>>
    /\ UNCHANGED nonOrderVars

\* --------------------------------------------------------- specifications
LedgerInit ==
    /\ fileExists = [a \in Accounts |-> FALSE]
    /\ ledger = [a \in Accounts |-> <<>>]
    /\ flock = [a \in Accounts |-> 0]
    /\ pc = [p \in Procs |-> "idle"]
    /\ loc = [p \in Procs |-> IdleLocals]
    /\ ncalls = 0
    /\ nAppend = [a \in Accounts |-> 0]

\* The accounts as concurrent trades find them: never registered, or holding
\* the registration line.
TradesInit ==
    /\ fileExists \in [Accounts -> BOOLEAN]
    /\ ledger \in [Accounts -> {<<>>} \cup {<<RegistrationEntry(c)>> : c \in CashValues}]
    /\ \A a \in Accounts : fileExists[a] <=> ledger[a] # <<>>
    /\ flock = [a \in Accounts |-> 0]
    /\ pc = [p \in Procs |-> "idle"]
    /\ loc = [p \in Procs |-> IdleLocals]
    /\ ncalls = 0
    /\ nAppend = [a \in Accounts |-> 0]

\* The ledger of ReadAccount as a trade finds it, the other account unused.
CrashInit ==
    /\ fileExists \in [Accounts -> BOOLEAN]
    /\ ledger \in [Accounts -> {<<>>} \cup {<<RegistrationEntry(c)>> : c \in CashValues}]
    /\ \A a \in Accounts : fileExists[a] <=> ledger[a] # <<>>
    /\ \A a \in Accounts \ {ReadAccount} : ~fileExists[a]
    /\ flock = [a \in Accounts |-> 0]
    /\ pc = [p \in Procs |-> "idle"]
    /\ loc = [p \in Procs |-> IdleLocals]
    /\ ncalls = 0
    /\ nAppend = [a \in Accounts |-> 0]

\* get_position_summary has not been called.
ReadIdle == summary = NoSummary

NoCall == [symbol |-> "", amount |-> 0, price |-> 0, filled |-> FALSE]

\* The positions of no ledger are followed.
PosIdle ==
    /\ pcfg = [initial_cash |-> 0, stock_symbols |-> <<>>, market |-> "HK"]
    /\ broker = [cash |-> 0, holdings |-> [c \in Codes("HK") |-> 0]]
    /\ pfile = <<>>
    /\ plast = NoCall

\* No order of OrderAccount is followed.
OrderIdle ==
    /\ can_sell = 0
    /\ sent = 0
    /\ oreq = [p \in Procs |-> NoRequest]
    /\ olog = <<>>
    /\ olast = NoOrderCall

\* The brokerage account with some holding, no call running.
OrderInit ==
    /\ can_sell \in 0..MaxHolding
    /\ sent = 0
    /\ oreq = [p \in Procs |-> NoRequest]
    /\ olog = <<>>
    /\ olast = NoOrderCall

\* An agent and its brokerage account, nothing held, no ledger yet.
PosInit ==
    /\ pcfg \in [initial_cash : InitialCash, stock_symbols : SymbolLists,
                  market : Markets]
    /\ broker \in [cash : InitialCash, holdings : {[c \in Codes(pcfg.market) |-> 0]}]
    /\ pfile = <<>>
    /\ plast = NoCall

\* run_trading is not running.
RunIdle ==
    /\ gpc = "idle"
    /\ gcfg = [models |-> <<>>]
    /\ gidx = 0
    /\ glog = EmptyRunLog

\* run_trading_once(config_path) called, for any list of model entries.
RunInit ==
    /\ gpc = "start"
    /\ gcfg \in [models : ModelLists]
    /\ gidx = 0
    /\ glog = EmptyRunLog

\* No _ainvoke_with_retry call is running.
RetryIdle ==
    /\ rpc = "idle"
    /\ rcfg = [max_retries |-> 0, base_delay |-> 0]
    /\ attempt = 0
    /\ rlog = EmptyLog

\* No session is running.
SessionIdle ==
    /\ spc = "idle"
    /\ scfg = [mode |-> "none", max_steps |-> 0]
    /\ current_step = 0
    /\ sess = EmptySession

\* A session run at its loop: the seed query is in the transcript.
SessionInit ==
    /\ spc = "loop"
    /\ scfg \in [mode : {"trading", "analysis"}, max_steps : 0..MaxSteps]
    /\ current_step = 0
    /\ sess = [EmptySession EXCEPT !.logged = 1]

\* No get_market_status call is running.
MarketIdle ==
    /\ mpc = "idle"
    /\ now_utc = [weekday |-> 0, minute |-> 0, second |-> 0, dst |-> FALSE]
    /\ market = "HK"
    /\ status = NoStatus

\* A call of get_market_status at any instant, for any market identifier.
MarketInit ==
    /\ mpc = "call"
    /\ market \in MarketIds
    /\ now_utc \in Instants
    /\ now_utc.dst => get_market_hours(market).timezone = "America/New_York"
    /\ status = NoStatus

\* No scheduler_loop is running.
SchedIdle ==
    /\ kpc = "idle"
    /\ kcfg = [market |-> "HK", only_trading_hours |-> TRUE, interval_minutes |-> 0]
    /\ kstatus = NoStatus
    /\ run_count = 0
    /\ klog = EmptySchedLog

\* scheduler_loop at the head of its first cycle.
SchedInit ==
    /\ kpc = "check"
    /\ kcfg \in [market : MarketIds, only_trading_hours : BOOLEAN,
                 interval_minutes : 1..MaxInterval]
    /\ kstatus = NoStatus
    /\ run_count = 0
    /\ klog = EmptySchedLog

\* The agent's max_retries and base_delay, no call of the wrapper running.
RetryReady ==
    /\ rpc = "idle"
    /\ rcfg \in [max_retries : (-1)..MaxRetriesBound, base_delay : 1..MaxDelay]
    /\ attempt = 0
    /\ rlog = EmptyLog

\* A call of _ainvoke_with_retry with the agent's max_retries and base_delay.
RetryInit ==
    /\ rpc = "loop"
    /\ rcfg \in [max_retries : (-1)..MaxRetriesBound, base_delay : 1..MaxDelay]
    /\ attempt = 0
    /\ rlog = EmptyLog

Init == LedgerInit /\ RetryIdle /\ SessionIdle /\ MarketIdle /\ SchedIdle /\ ReadIdle /\ PosIdle /\ RunIdle /\ OrderIdle

TradeNext ==
    \/ \E p \in Procs, sig \in Accounts \cup {NoSignature},
          amountOk \in BOOLEAN, checksOk \in BOOLEAN :
            TradeStart(p, sig, amountOk, checksOk)
    \/ \E p \in Procs : Acquire(p)
    \/ \E p \in Procs, retOk \in BOOLEAN, fundsOk \in BOOLEAN : PlaceOrder(p, retOk, fundsOk)
    \/ \E p \in Procs : RecordScan(p)
    \/ \E p \in Procs : RecordAppend(p)
    \/ \E p \in Procs : TradeReturn(p)
    \/ \E p \in Procs : Interrupt(p)

Next ==
    \/ \E p \in Procs, a \in Accounts, cash \in CashValues : RegisterAgent(p, a, cash)
    \/ \E p \in Procs : RegisterOpen(p)
    \/ \E p \in Procs, rel \in {"same", "shorter", "longer"} : RegisterWrite(p, rel)
    \/ TradeNext

\* register_agent, buy_futu and sell_futu called by several processes.
Spec == Init /\ [][Next]_vars

\* buy_futu and sell_futu called by several processes, no register_agent running.
InitTrades == TradesInit /\ RetryIdle /\ SessionIdle /\ MarketIdle /\ SchedIdle /\ ReadIdle /\ PosIdle /\ RunIdle /\ OrderIdle

SpecTrades == InitTrades /\ [][TradeNext]_vars

RetryNext ==
    \/ AinvokeOk
    \/ \E e \in Errors : AinvokeFail(e)
    \/ RetrySleep
    \/ RetryFallThrough

\* One call of _ainvoke_with_retry.
InitRetry == LedgerInit /\ RetryInit /\ SessionIdle /\ MarketIdle /\ SchedIdle /\ ReadIdle /\ PosIdle /\ RunIdle /\ OrderIdle

SpecRetry == InitRetry /\ [][RetryNext]_vars

SessionNext ==
    \/ \E text \in Texts : StepResponse(text)
    \/ StepRaise
    \/ SessionReturn

\* One run of run_trading_session or run_analysis_session.
InitSession == LedgerInit /\ RetryIdle /\ SessionInit /\ MarketIdle /\ SchedIdle /\ ReadIdle /\ PosIdle /\ RunIdle /\ OrderIdle

SpecSession == InitSession /\ [][SessionNext]_vars

MarketNext == get_market_status

\* One call of get_market_status.
InitMarket == LedgerInit /\ RetryIdle /\ SessionIdle /\ MarketInit /\ SchedIdle /\ ReadIdle /\ PosIdle /\ RunIdle /\ OrderIdle

SpecMarket == InitMarket /\ [][MarketNext]_vars

SchedNext ==
    \/ \E t \in SchedInstants : CycleCheck(t)
    \/ CycleError
    \/ ToolCall
    \/ StepReturn
    \/ StepException
    \/ CycleSleep
    \/ ErrorSleep
    \/ SchedInterrupt
    \/ \E p \in Procs : Acquire(p)
    \/ \E p \in Procs : LockFail(p)
    \/ \E p \in Procs, retOk \in BOOLEAN, fundsOk \in BOOLEAN : PlaceOrder(p, retOk, fundsOk)
    \/ \E p \in Procs : RecordScan(p)
    \/ \E p \in Procs : RecordAppend(p)
    \/ \E p \in Procs : TradeReturn(p)
    \/ \E p \in Procs : Interrupt(p)

\* scheduler_loop, with the tool server its sessions call.
InitSched == LedgerInit /\ RetryIdle /\ SessionIdle /\ MarketIdle /\ SchedInit /\ ReadIdle /\ PosIdle /\ RunIdle /\ OrderIdle

SpecSched == InitSched /\ [][SchedNext]_vars

CrashNext ==
    \/ \E p \in Procs : TradeStart(p, ReadAccount, TRUE, TRUE)
    \/ \E p \in Procs : Acquire(p)
    \/ \E p \in Procs, retOk \in BOOLEAN, fundsOk \in BOOLEAN : PlaceOrder(p, retOk, fundsOk)
    \/ \E p \in Procs : RecordScan(p)
    \/ \E p \in Procs : RecordAppend(p)
    \/ \E p \in Procs : TradeReturn(p)
    \/ \E p \in Procs : Interrupt(p)
    \/ \E p \in Procs : CrashInWrite(p)
    \/ GetPositionSummary

\* buy_futu and sell_futu calls for one account whose writers may die at any
\* point, the middle of a line included, and the readers of its ledger.
InitCrash == CrashInit /\ RetryIdle /\ SessionIdle /\ MarketIdle /\ SchedIdle /\ ReadIdle /\ PosIdle /\ RunIdle /\ OrderIdle

SpecCrash == InitCrash /\ [][CrashNext]_vars

PosNext ==
    \/ PosRegister
    \/ \E symbol \in Symbols, amount \in Amounts, last_price \in Prices,
          filled \in BOOLEAN, posOk \in BOOLEAN, fundsOk \in BOOLEAN :
            PosBuy(symbol, amount, last_price, filled, posOk, fundsOk)

\* register_agent and accepted buy_futu calls of one account, with the
\* content of the lines they write.
InitPos == LedgerInit /\ RetryIdle /\ SessionIdle /\ MarketIdle /\ SchedIdle /\ ReadIdle /\ PosInit /\ RunIdle /\ OrderIdle

SpecPos == InitPos /\ [][PosNext]_vars

RunNext ==
    \/ RunStart
    \/ \E outcome \in BodyOutcomes \cup {"no_key", "no_signature"} : RunModel(outcome)
    \/ RunReturn

\* One call of run_trading_once (scheduler --once).
InitRun == LedgerInit /\ RetryIdle /\ SessionIdle /\ MarketIdle /\ SchedIdle /\ ReadIdle /\ PosIdle /\ RunInit /\ OrderIdle

SpecRun == InitRun /\ [][RunNext]_vars

SessionRetryNext ==
    \/ InvokeBegin
    \/ AinvokeOk
    \/ \E e \in Errors : AinvokeFail(e)
    \/ RetrySleep
    \/ RetryFallThrough
    \/ \E text \in RunTexts : InvokeReturned(text)
    \/ InvokeReturnedNone
    \/ InvokeRaised
    \/ SessionReturn

\* One session run, every decision step made through _ainvoke_with_retry.
InitSessionRetry == LedgerInit /\ RetryReady /\ SessionInit /\ MarketIdle /\ SchedIdle /\ ReadIdle /\ PosIdle /\ RunIdle /\ OrderIdle

SpecSessionRetry == InitSessionRetry /\ [][SessionRetryNext]_vars

\* The same run when every call of the decision step returns or fails and
\* every sleep ends: a step that can be taken is taken.
SpecSessionRetryFair ==
    InitSessionRetry /\ [][SessionRetryNext]_vars /\ WF_vars(SessionRetryNext)

OrderNext ==
    \/ \E side \in Sides, sig \in {OrderAccount, NoSignature},
          a \in AmountArgs, fail \in QueryFailures :
            OrderStart(ToolProc, side, sig, a, fail)
    \/ \E p \in Procs : OrderAcquire(p)
    \/ \E p \in Procs, retOk \in BOOLEAN : OrderPlace(p, retOk, TRUE)
    \/ \E p \in Procs : OrderScan(p)
    \/ \E p \in Procs : OrderAppend(p)
    \/ \E p \in Procs : OrderReturn(p)
    \/ \E p \in Procs : OrderInterrupt(p)

\* buy_futu and sell_futu called on one tool server for one account, with any
\* arguments, one call after the other, the holding staying as it is.
InitOrders == LedgerInit /\ RetryIdle /\ SessionIdle /\ MarketIdle /\ SchedIdle /\ ReadIdle /\ PosIdle /\ RunIdle /\ OrderInit

SpecOrders == InitOrders /\ [][OrderNext]_vars

SellNext ==
    \/ \E p \in Procs, a \in AmountArgs :
          AmountOk(a) /\ OrderStart(p, "sell", OrderAccount, a, "none")
    \/ \E p \in Procs : OrderAcquire(p)
    \/ \E p \in Procs, retOk \in BOOLEAN : OrderPlace(p, retOk, TRUE)
    \/ \E p \in Procs : OrderScan(p)
    \/ \E p \in Procs : OrderAppend(p)
    \/ \E p \in Procs : OrderReturn(p)
    \/ HoldingChange

\* sell_futu called by several processes for one account and one instrument,
\* with the brokerage that receives the orders and changes the holding.
SpecSells == InitOrders /\ [][SellNext]_vars

PlacementNext ==
    \/ \E p \in Procs, cash \in CashValues : RegisterAgent(p, OrderAccount, cash)
    \/ \E p \in Procs : RegisterOpen(p)
    \/ \E p \in Procs, rel \in {"same", "shorter", "longer"} : RegisterWrite(p, rel)
    \/ \E p \in Procs : OrderStart(p, "buy", OrderAccount, [kind |-> "int", n |-> 1], "none")
    \/ \E p \in Procs : OrderAcquire(p)
    \/ \E p \in Procs, retOk \in BOOLEAN, fundsOk \in BOOLEAN : OrderPlace(p, retOk, fundsOk)
    \/ \E p \in Procs : OrderScan(p)
    \/ \E p \in Procs : OrderAppend(p)
    \/ \E p \in Procs : OrderReturn(p)

\* buy_futu and register_agent called by several processes for one account,
\* with the brokerage that receives the orders.
InitPlacement == LedgerInit /\ RetryIdle /\ SessionIdle /\ MarketIdle /\ SchedIdle /\ ReadIdle /\ PosIdle /\ RunIdle /\ OrderIdle

SpecPlacement == InitPlacement /\ [][PlacementNext]_vars

LockNext ==
    \/ \E p \in Procs, sig \in Accounts : TradeStart(p, sig, TRUE, TRUE)
    \/ \E p \in Procs : Acquire(p)
    \/ \E p \in Procs, retOk \in BOOLEAN : PlaceOrder(p, retOk, TRUE)
    \/ \E p \in Procs : RecordScan(p)
    \/ \E p \in Procs : RecordAppend(p)
    \/ \E p \in Procs : TradeReturn(p)

\* The steps of process p inside the `with` block.
HolderStep(p) ==
    \/ \E retOk \in BOOLEAN : PlaceOrder(p, retOk, TRUE)
    \/ RecordScan(p)
    \/ RecordAppend(p)
    \/ TradeReturn(p)

\* buy_futu and sell_futu called by several processes, every brokerage and
\* file call of a lock holder returning: a holder goes on to its next step,
\* and a process that flock(LOCK_EX) can wake again and again is given the
\* lock.
SpecLockFair ==
    /\ Init /\ [][LockNext]_vars
    /\ \A p \in Procs : WF_vars(HolderStep(p)) /\ SF_vars(Acquire(p))

\* ================================================================= claims
\* The entries of a file that a reader can parse, in file order.
ReadBack(lines) == SelectSeq(lines, Parseable)

IsPrefix(s, t) == Len(s) <= Len(t) /\ SubSeq(t, 1, Len(s)) = s

\* The read-max-id-then-write-line section of record_trade_to_file.
ScanWritePcs == {"scan", "append"}

\* C1: for every account the ids of the entries read back from position.jsonl,
\* in file order, are exactly 0, 1, 2, ... (no gap, no repeat), whatever the
\* interleaving of register_agent and buy_futu / sell_futu calls.
C1_IdsAreZeroOneTwo ==
    \A a \in Accounts :
        \A i \in 1..Len(ReadBack(ledger[a])) : ReadBack(ledger[a])[i].id = i - 1

\* C2: with only buy_futu / sell_futu calls running, no two processes are in
\* the read-max-id-then-write-line section of one account at the same time,
\* and the entries the calls appended are all in the ledger, carrying
\* consecutive (hence distinct) ids.
C2_AppendsAreSerialized ==
    /\ \A p, q \in Procs :
         (p # q /\ pc[p] \in ScanWritePcs /\ pc[q] \in ScanWritePcs)
            => loc[p].signature # loc[q].signature
    /\ \A a \in Accounts :
         /\ \A i \in 2..Len(ledger[a]) : ledger[a][i].id = ledger[a][i - 1].id + 1
         /\ Len(SelectSeq(ledger[a], LAMBDA e : e.action = "trade")) = nAppend[a]

\* C2 witness: a call is between its read of the maximum id and its write while
\* another call for the same account waits for the lock, after an earlier
\* append to that ledger.
C2_Witness ==
    \E p, q \in Procs :
        /\ p # q
        /\ pc[p] = "append" /\ pc[q] = "lock"
        /\ loc[p].signature = loc[q].signature
        /\ nAppend[loc[p].signature] >= 1

\* C3: every step that writes an account's ledger file (creates, truncates or
\* extends it) is taken by a process that holds that account's lock.
C3_LedgerWrittenOnlyUnderLock ==
    [][\A a \in Accounts :
         (ledger'[a] # ledger[a] \/ fileExists'[a] # fileExists[a])
            => \E p \in Procs : pc'[p] # pc[p] /\ flock[LockPath(a)] = p]_vars

\* C4: the ledger is append-only: the content of an existing file is a prefix
\* of its content after every step.
C4_AppendOnly ==
    [][\A a \in Accounts :
         fileExists[a] => (fileExists'[a] /\ IsPrefix(ledger[a], ledger'[a]))]_vars

\* C5: a register_agent call made when the account's ledger exists returns
\* without writing: it never reaches the open or the write, and its step
\* leaves every ledger as it was.
C5_RegisterOnExistingLedgerWritesNothing ==
    /\ [](\A p \in Procs : pc[p] \in {"reg_open", "reg_write"} => ~loc[p].existed)
    /\ [][\A p \in Procs, a \in Accounts, cash \in CashValues :
            (fileExists[a] /\ RegisterAgent(p, a, cash))
               => /\ pc'[p] = "idle"
                  /\ loc'[p].result = "exists"
                  /\ ledger' = ledger
                  /\ fileExists' = fileExists]_vars

\* C5 witness: a register_agent call has returned "exists" on the one ledger
\* there is, which holds its registration entry and a later entry.
C5_Witness ==
    \E p \in Procs, a \in Accounts :
        /\ pc[p] = "idle" /\ loc[p].result = "exists"
        /\ Len(ledger[a]) >= 2 /\ ledger[a][1].action = "reg"
        /\ \A b \in Accounts \ {a} : ~fileExists[b]

\* C6: a lock is held only by a process that is inside the `with` block of a
\* call for that account: once a call has left the block (success, order
\* failure, exception or interruption) it holds no lock.
C6_NoLockHeldAfterExit ==
    \A path \in Accounts :
        flock[path] # 0 =>
            /\ pc[flock[path]] \in LockedPcs
            /\ LockPath(loc[flock[path]].signature) = path

\* C6 witness: the only call made so far appended its entry and was then
\* interrupted inside the block; no lock is held.
C6_Witness ==
    /\ ncalls = 1
    /\ \E p \in Procs : pc[p] = "idle" /\ loc[p].result = "raised"
    /\ \E a \in Accounts : nAppend[a] = 1
    /\ \A path \in Accounts : flock[path] = 0

\* C7: a call waiting for the lock of its account can take it whenever no
\* process is inside the block for that same account, whoever holds the locks
\* of other accounts.
C7_LockIsPerAccount ==
    \A p \in Procs :
        (/\ pc[p] = "lock"
         /\ \A q \in Procs : pc[q] \in LockedPcs => loc[q].signature # loc[p].signature)
            => ENABLED Acquire(p)

\* C7 witness: two processes are inside the blocks of different accounts.
C7_Witness ==
    \E p, q \in Procs :
        /\ pc[p] \in LockedPcs /\ pc[q] \in LockedPcs
        /\ loc[p].signature # loc[q].signature

\* C8: a call whose order was accepted and that returns has appended exactly
\* one entry, and the entry it appends carries the ledger's previous maximum
\* id + 1; a call whose order failed has appended none.
C8_AcceptedOrderAppendsNextId ==
    [][\A p \in Procs :
         /\ (pc[p] \in LockedPcs /\ pc'[p] = "idle" /\ loc'[p].result = "success")
               => (loc[p].accepted /\ loc[p].wrote = 1)
         /\ (pc[p] \in LockedPcs /\ pc'[p] = "idle" /\ loc'[p].result = "order_failed")
               => (~loc[p].accepted /\ loc[p].wrote = 0)
         /\ (pc[p] = "append" /\ pc'[p] = "ret")
               => LET a == loc[p].signature
                  IN /\ Len(ledger'[a]) = Len(ledger[a]) + 1
                     /\ IsPrefix(ledger[a], ledger'[a])
                     /\ ledger'[a][Len(ledger'[a])].id = ScanMaxId(ledger[a], 0) + 1]_vars

\* C9: when every call of the decision step fails and max_retries = N >= 1,
\* the wrapper ends by raising, after exactly N calls and the N-1 sleeps
\* base_delay * k (k = 1..N-1), and what it raises is the failure of call N.
C9_AlwaysFailing ==
    (/\ rpc \in {"returned", "raised"}
     /\ rcfg.max_retries >= 1
     /\ Len(rlog.errs) = rlog.calls)
        => /\ rpc = "raised"
           /\ rlog.calls = rcfg.max_retries
           /\ Len(rlog.sleeps) = rcfg.max_retries - 1
           /\ \A k \in 1..Len(rlog.sleeps) : rlog.sleeps[k] = rcfg.base_delay * k
           /\ rlog.raised = rlog.errs[rcfg.max_retries]

\* C9 witness: max_retries = 3, three failed calls, two sleeps, raised.
C9_Witness ==
    /\ rpc = "raised"
    /\ rcfg.max_retries = 3
    /\ rlog.calls = 3
    /\ rlog.sleeps = <<rcfg.base_delay, 2 * rcfg.base_delay>>
    /\ rlog.errs = <<"E1", "E1", "E2">>
    /\ rlog.raised = "E2"

\* C10: once a call of the decision step has succeeded, as call k, the wrapper
\* has returned that response: k calls, attempt number k <= max_retries, k-1
\* sleeps, the k-1 earlier failures not raised, and no further step.
C10_FirstSuccessReturns ==
    rlog.okAt >= 1 =>
        /\ rpc = "returned"
        /\ rlog.returned = "response"
        /\ rlog.raised = "none"
        /\ rlog.calls = rlog.okAt
        /\ attempt = rlog.okAt
        /\ rlog.okAt <= rcfg.max_retries
        /\ Len(rlog.errs) = rlog.okAt - 1
        /\ Len(rlog.sleeps) = rlog.okAt - 1
        /\ ~ENABLED RetryNext

\* C10 witness: the third call succeeded after two failures.
C10_Witness ==
    /\ rpc = "returned"
    /\ rlog.okAt = 3
    /\ Len(rlog.errs) = 2

\* What a finished run makes observable of its terminal response: the text
\* run_analysis_session returns, the content run_trading_session logged.
ObservableResult ==
    IF scfg.mode = "analysis" THEN sess.result ELSE sess.lastLogged

\* C11: when step k is the first whose response contains the stop token, the
\* finished run has invoked the decision step exactly k times, left the loop
\* by the stop branch, and its observable result does not contain the token.
C11_StopSignalEndsRunStripped ==
    (spc = "done" /\ sess.firstStop >= 1)
        => /\ sess.invoked = sess.firstStop
           /\ current_step = sess.firstStop
           /\ sess.exit = "signal"
           /\ ~Contains(ObservableResult, STOP_SIGNAL)

\* The step-count part of C11 alone: k invocations, then the stop exit.
C11_StopSignalEndsRun ==
    (spc = "done" /\ sess.firstStop >= 1)
        => /\ sess.invoked = sess.firstStop
           /\ current_step = sess.firstStop
           /\ sess.exit = "signal"

LocalWeekMinute(m, t) ==
    LET ahead == IF m = "HK" THEN 8 * 60 ELSE IF t.dst THEN -(4 * 60) ELSE -(5 * 60)
    IN (t.weekday * 24 * 60 + t.minute + ahead + 7 * 24 * 60) % (7 * 24 * 60)

\* That clock reads weekday wd and minute min of the day.
IsLocalTime(m, t, wd, min) == LocalWeekMinute(m, t) = wd * 24 * 60 + min

LocalWeekday(m, t) == LocalWeekMinute(m, t) \div (24 * 60)
LocalMinute(m, t) == LocalWeekMinute(m, t) % (24 * 60)

\* The starts and ends (minute of day) of the windows with no adjacent window.
IsolatedStarts(m) == IF m = "HK" THEN {570, 780} ELSE {240}
IsolatedEnds(m) == IF m = "HK" THEN {720, 960} ELSE {1200}

\* C13: windows are start-inclusive and end-exclusive. On a weekday, at the
\* start s of a window with no window before it, is_trading is false at
\* (s-1):59 and true at s:00; at the end e of a window with no window after it,
\* true at (e-1):59 and false at e:00. For HK MORNING: 09:29:59 false,
\* 09:30:00 true, 11:59:59 true, 12:00:00 false.
C13_WindowsStartInclusiveEndExclusive ==
    (mpc = "done" /\ market \in Markets) =>
        \A wd \in 0..4 :
            /\ \A s \in IsolatedStarts(market) :
                 /\ (IsLocalTime(market, now_utc, wd, s - 1) /\ now_utc.second = 59)
                        => ~status.is_trading
                 /\ (IsLocalTime(market, now_utc, wd, s) /\ now_utc.second = 0)
                        => status.is_trading
            /\ \A e \in IsolatedEnds(market) :
                 /\ (IsLocalTime(market, now_utc, wd, e - 1) /\ now_utc.second = 59)
                        => status.is_trading
                 /\ (IsLocalTime(market, now_utc, wd, e) /\ now_utc.second = 0)
                        => ~status.is_trading

\* C13 witness: HK classified on a Wednesday at local 12:00:00 (04:00:00 UTC),
\* the end of the morning window.
C13_Witness ==
    /\ mpc = "done" /\ market = "HK"
    /\ now_utc = [weekday |-> 2, minute |-> 240, second |-> 0, dst |-> FALSE]
    /\ status.session = "CLOSED" /\ ~status.is_trading

\* C14: an instant that is a Saturday or Sunday in the market's own zone is
\* classified WEEKEND, not trading, is_weekend, whatever the time of day; an
\* instant that is a weekday there is never WEEKEND, whatever day it is in UTC
\* or in the other zone.
C14_WeekendByMarketZone ==
    (mpc = "done" /\ market \in Markets) =>
        IF LocalWeekday(market, now_utc) \in {5, 6}
        THEN /\ status.session = "WEEKEND"
             /\ ~status.is_trading
             /\ status.is_weekend
        ELSE /\ status.session # "WEEKEND"
             /\ ~status.is_weekend

\* C14 witness: Saturday 00:30 UTC is Friday evening in New York, inside the
\* after-hours window, and Saturday morning in Hong Kong.
C14_Witness ==
    /\ mpc = "done" /\ market = "US"
    /\ now_utc.weekday = 5 /\ now_utc.minute = 30
    /\ status.session = "AFTER_HOURS" /\ ~status.is_weekend
    /\ MarketStatus("HK", now_utc).session = "WEEKEND"

\* The window tables of the claim, in minutes of the day.
TableSession(m, min) ==
    IF m = "US"
    THEN CASE 240 <= min /\ min < 570 -> "PRE_MARKET"
           [] 570 <= min /\ min < 960 -> "REGULAR"
           [] 960 <= min /\ min < 1200 -> "AFTER_HOURS"
           [] OTHER -> "CLOSED"
    ELSE CASE 570 <= min /\ min < 720 -> "MORNING"
           [] 780 <= min /\ min < 960 -> "AFTERNOON"
           [] OTHER -> "CLOSED"

\* C15: on a weekday get_market_status returns the name of the window of the
\* table that contains the local minute of the day, with is_trading true, and
\* CLOSED with is_trading false when none does; HK is CLOSED in [720, 780) and
\* US is trading for every minute of [240, 1200).
C15_SessionFollowsTable ==
    (mpc = "done" /\ market \in Markets /\ LocalWeekday(market, now_utc) \in 0..4) =>
        LET min == LocalMinute(market, now_utc)
        IN /\ status.session = TableSession(market, min)
           /\ status.is_trading = (TableSession(market, min) # "CLOSED")
           /\ (market = "HK" /\ 720 <= min /\ min < 780)
                  => (status.session = "CLOSED" /\ ~status.is_trading)
           /\ (market = "US" /\ 240 <= min /\ min < 1200) => status.is_trading

\* C15 witness: HK classified on a Monday at local 12:30 (04:30 UTC), in the
\* midday gap.
C15_Witness ==
    /\ mpc = "done" /\ market = "HK"
    /\ now_utc.weekday = 0 /\ now_utc.minute = 270
    /\ status.session = "CLOSED" /\ ~status.is_trading /\ ~status.is_weekend

\* A step of the loop itself (not of the tool server) is possible.
LoopCanStep ==
    \/ ENABLED (\E t \in SchedInstants : CycleCheck(t))
    \/ ENABLED CycleError
    \/ ENABLED ToolCall
    \/ ENABLED StepReturn
    \/ ENABLED StepException
    \/ ENABLED CycleSleep
    \/ ENABLED ErrorSleep

\* C16: with only_trading_hours set, the step function is invoked only in a
\* cycle classified is_trading; a cycle classified not trading (CLOSED or
\* WEEKEND) goes from its check straight to its sleep, and until the next
\* cycle the loop invokes nothing: run_count and the invocations stay as they
\* were, no tool call is started, no session runs.
C16_NoStepOutsideTradingHours ==
    /\ []((kcfg.only_trading_hours /\ kpc = "step") => kstatus.is_trading)
    /\ [][(/\ kcfg.only_trading_hours
           /\ klog'.kind = "skipped"
           /\ ~kstatus'.is_trading
           /\ klog'.cycles = klog.cycles + 1)
             => /\ kpc' = "sleep"
                /\ run_count' = run_count
                /\ klog'.invoked = klog.invoked]_vars
    /\ [][(/\ kcfg.only_trading_hours
           /\ klog.kind = "skipped"
           /\ kpc = "sleep")
             => /\ kpc' \in {"sleep", "check", "exited"}
                /\ run_count' = run_count
                /\ klog'.invoked = klog.invoked
                /\ ncalls' = ncalls
                /\ sess' = sess]_vars

\* C16 witness: trading hours only; after a cycle that ran the step function,
\* a cycle classified CLOSED is in its sleep.
C16_Witness ==
    /\ kcfg.only_trading_hours
    /\ kpc = "sleep" /\ klog.kind = "skipped"
    /\ kstatus.session = "CLOSED"
    /\ klog.cycles = 2 /\ run_count = 1

\* C17: the check of every cycle that is not 'only_trading_hours set and
\* is_trading false' invokes the step function, once; with only_trading_hours
\* unset that is every cycle, CLOSED and WEEKEND ones included.
C17_EveryAdmittedCycleRunsStep ==
    [][(/\ kpc = "check"
        /\ klog'.cycles = klog.cycles + 1
        /\ klog'.kind # "cycle_error"
        /\ ~(kcfg.only_trading_hours /\ ~kstatus'.is_trading))
          => /\ kpc' = "step"
             /\ klog'.invoked = klog.invoked + 1
             /\ run_count' = run_count + 1]_vars

C19_SleepsIntervalAlways ==
    [][(kpc # "check" /\ kpc' = "check")
          => klog'.lastSleep = kcfg.interval_minutes * 60]_vars

\* C19 amended: after a cycle that ran the step function (whether it returned
\* or raised) or skipped it, the loop sleeps interval_minutes * 60 seconds
\* before the next cycle; after a cycle that hit an error outside the step
\* function it sleeps 60 seconds.
C19_SleepsIntervalUnlessCycleError ==
    [][(kpc # "check" /\ kpc' = "check")
          => IF klog.kind \in {"ran", "skipped", "step_error"}
             THEN /\ kpc = "sleep"
                  /\ klog'.lastSleep = kcfg.interval_minutes * 60
             ELSE /\ klog.kind = "cycle_error"
                  /\ kpc = "errsleep"
                  /\ klog'.lastSleep = 60]_vars

\* C19 witness: interval of 2 minutes; a cycle whose step function raised has
\* slept 120 seconds and the next cycle is about to start.
C19_Witness ==
    /\ kcfg.interval_minutes = 2
    /\ kpc = "check" /\ klog.kind = "step_error"
    /\ klog.lastSleep = 120

MaxIdOf(lines) ==
    LET ids == {lines[i].id : i \in {j \in 1..Len(lines) : Parseable(lines[j])}} \cup {0}
    IN CHOOSE m \in ids : \A n \in ids : n <= m

HasUnparseable(lines) == \E i \in 1..Len(lines) : ~Parseable(lines[i])

\* C21: both readers skip a line that does not parse. The scan of
\* record_trade_to_file yields the greatest id of the lines that parse, and
\* get_position_summary, called on a file that holds such a line, does not
\* fail: when some line parses its result is built from those lines (their
\* number, the last of them).
C21_ReadersSkipUnparseableLines ==
    /\ \A p \in Procs :
          pc[p] = "append" => loc[p].current_id = MaxIdOf(ledger[loc[p].signature])
    /\ (summary.existed /\ HasUnparseable(summary.read))
          => /\ summary.outcome # "raised"
             /\ ReadBack(summary.read) # <<>>
                  => /\ summary.outcome = "ok"
                     /\ summary.total_records = Len(ReadBack(summary.read))
                     /\ summary.latest =
                          ReadBack(summary.read)[Len(ReadBack(summary.read))]

\* The scan's half of C21 alone.
C21_ScanSkipsUnparseableLines ==
    \A p \in Procs :
        pc[p] = "append" => loc[p].current_id = MaxIdOf(ledger[loc[p].signature])

\* C22: whatever writers died before it, and wherever (the middle of a line
\* included), a record_trade_to_file call that completes adds exactly one
\* readable entry to the ledger, whose id is the greatest readable id + 1, and
\* the readable ids are pairwise distinct.
C22_AppendAfterCrashIsReadable ==
    /\ [][\A p \in Procs :
            (pc[p] = "append" /\ pc'[p] = "ret")
               => LET a == loc[p].signature
                      after == ReadBack(ledger'[a])
                  IN /\ Len(after) = Len(ReadBack(ledger[a])) + 1
                     /\ IsPrefix(ReadBack(ledger[a]), after)
                     /\ after[Len(after)].id = MaxIdOf(ledger[a]) + 1]_vars
    /\ [](\A a \in Accounts :
            \A i, j \in 1..Len(ReadBack(ledger[a])) :
                i # j => ReadBack(ledger[a])[i].id # ReadBack(ledger[a])[j].id)

\* The uniqueness half of C22 alone.
C22_ReadableIdsUnique ==
    \A a \in Accounts :
        \A i, j \in 1..Len(ReadBack(ledger[a])) :
            i # j => ReadBack(ledger[a])[i].id # ReadBack(ledger[a])[j].id

\* C23: when the lock of the account cannot be created or taken, the call
\* fails with an error at the `with` statement: it has placed no order, it
\* holds no lock, and its step leaves every ledger and every lock as it was.
\* The failure does not end the driver loop: the step function can still
\* return or raise, either leads to the sleep, and the loop is left only by an
\* external interrupt.
C23_LockFailureWritesNothingLoopGoesOn ==
    /\ [][\A p \in Procs :
            LockFail(p)
               => /\ pc[p] = "lock"
                  /\ ~loc[p].accepted /\ loc[p].wrote = 0
                  /\ loc'[p].result = "lock_error" /\ pc'[p] = "idle"
                  /\ ledger' = ledger /\ fileExists' = fileExists
                  /\ nAppend' = nAppend /\ flock' = flock
                  /\ \A path \in Accounts : flock[path] # p]_vars
    /\ [](\A p \in Procs :
            loc[p].result = "lock_error" => (~loc[p].accepted /\ loc[p].wrote = 0))
    /\ []((kpc = "step" /\ loc[ToolProc].result = "lock_error")
            => (ENABLED StepReturn /\ ENABLED StepException))
    /\ [][(kpc = "step" /\ loc[ToolProc].result = "lock_error" /\ kpc' # "step")
            => kpc' \in {"sleep", "exited"}]_vars
    /\ [](kpc = "exited" => klog.interrupted)
    /\ []((kpc = "sleep" /\ klog.cycles < MaxCycles) => ENABLED CycleSleep)

\* C23 witness: the only tool call of the first cycle failed at the lock; the
\* loop slept and its second cycle runs the step function; no ledger exists
\* and no lock is held.
C23_Witness ==
    /\ klog.cycles = 2 /\ kpc = "step" /\ ~klog.interrupted
    /\ ncalls = 1 /\ loc[ToolProc].result = "lock_error"
    /\ klog.lastSleep = SleepSeconds(kcfg.interval_minutes)
    /\ \A a \in Accounts : ~fileExists[a] /\ flock[a] = 0 /\ nAppend[a] = 0

\* The quantity a snapshot lists for a tracked instrument, under its symbol or
\* under its market-qualified code; -1 when it lists neither.
Listed(positions, symbol) ==
    IF symbol \in DOMAIN positions THEN positions[symbol]
    ELSE IF convert_symbol_to_futu(symbol, pcfg.market) \in DOMAIN positions
         THEN positions[convert_symbol_to_futu(symbol, pcfg.market)]
         ELSE -1

\* The scenario of C24 has been run: register with cash 100000 and instruments
\* [X, Y], then one accepted buy of 10 X at 50.
C24_Scenario ==
    /\ pcfg.initial_cash = 100000 /\ pcfg.stock_symbols = <<"X", "Y">>
    /\ Len(pfile) = 2 /\ pfile[1].this_action = NoAction
    /\ plast.symbol = "X" /\ plast.amount = 10 /\ plast.price = 50

\* C24: after that scenario the ledger holds the entry id 0 with positions
\* {CASH: 100000, X: 0, Y: 0} and the entry id 1 with the action buy 10 X at 50
\* and positions CASH: 99500, X: 10, Y: 0: the snapshot after the action, every
\* tracked instrument listed.
C24_RegisterThenBuyExample ==
    C24_Scenario =>
        /\ pfile[1].id = 0
        /\ pfile[1].positions = [k \in {"CASH", "X", "Y"} |->
                                   IF k = "CASH" THEN 100000 ELSE 0]
        /\ pfile[2].id = 1
        /\ pfile[2].this_action.action = "buy"
        /\ pfile[2].this_action.symbol \in {"X", convert_symbol_to_futu("X", pcfg.market)}
        /\ pfile[2].this_action.amount = 10
        /\ pfile[2].this_action.price = 50
        /\ "CASH" \in DOMAIN pfile[2].positions
        /\ pfile[2].positions["CASH"] = 99500
        /\ Listed(pfile[2].positions, "X") = 10
        /\ Listed(pfile[2].positions, "Y") = 0

\* The registration entry and the id and action of the trade entry in C24.
C24_IdsAndActionOfExample ==
    C24_Scenario =>
        /\ pfile[1].id = 0
        /\ pfile[1].positions = [k \in {"CASH", "X", "Y"} |->
                                   IF k = "CASH" THEN 100000 ELSE 0]
        /\ pfile[2].id = 1
        /\ pfile[2].this_action.action = "buy"
        /\ pfile[2].this_action.symbol = convert_symbol_to_futu("X", pcfg.market)
        /\ pfile[2].this_action.amount = 10
        /\ pfile[2].this_action.price = 50

\* C25: the positions of every line of the ledger, written by register_agent
\* or by buy_futu / sell_futu, contain the key CASH, whatever the position and
\* funds queries made after the order returned.
C25_EverySnapshotHasCash ==
    \A i \in 1..Len(pfile) : "CASH" \in DOMAIN pfile[i].positions

\* The registration's half of C25 alone.
C25_RegistrationHasCash ==
    \A i \in 1..Len(pfile) :
        pfile[i].this_action = NoAction => "CASH" \in DOMAIN pfile[i].positions

\* The positions, in config["models"], of the enabled entries.
EnabledIndexes == {i \in 1..Len(gcfg.models) : gcfg.models[i].enabled}

\* The k-th enabled entry, counted in configuration order.
KthEnabled(k) ==
    gcfg.models[CHOOSE i \in EnabledIndexes :
                    Cardinality({j \in EnabledIndexes : j <= i}) = k]

C28_ConfigErrorBeforeAnyIo ==
    ~glog.configErrorAfterIo

\* The tool's half of C28: a buy_futu / sell_futu call without SIGNATURE
\* returns its error at once: no lock is taken, no order placed, no ledger
\* written.
C28_ToolWithoutSignatureReturnsAtOnce ==
    [][\A p \in Procs :
         (pc[p] = "idle" /\ pc'[p] # "idle") => loc'[p].signature # NoSignature]_vars

\* C27: in a trading and in an analysis run alike, the seed is in the
\* transcript before the first step is invoked, and whenever the loop is
\* about to invoke a further step the response and the tool output of every
\* step made so far are in it (two entries for each); the transcript only
\* grows.
C27_TranscriptWrittenBeforeNextStep ==
    /\ []((spc = "loop" /\ current_step < scfg.max_steps)
            => sess.logged = 1 + 2 * current_step)
    /\ [][sess'.logged >= sess.logged]_vars

\* C27 for run_trading_session alone.
C27_TradingTranscriptWrittenBeforeNextStep ==
    /\ []((spc = "loop" /\ current_step < scfg.max_steps /\ scfg.mode = "trading")
            => sess.logged = 1 + 2 * current_step)
    /\ [][sess'.logged >= sess.logged]_vars

\* C29: a buy_futu / sell_futu call in which a brokerage call returned a
\* status other than success ends with an error result: a call that returns
\* success had its order accepted and its funds query answered, and a refused
\* order gives the error result.
C29_NonSuccessStatusIsReported ==
    [][\A p \in Procs :
         /\ (pc[p] \in LockedPcs /\ pc'[p] = "idle" /\ loc'[p].result = "success")
               => (loc[p].accepted /\ loc[p].hasCash)
         /\ (pc[p] = "place" /\ pc'[p] = "idle" /\ loc'[p].result # "raised")
               => loc'[p].result = "order_failed"]_vars

\* C29 for place_order alone: a refused order gives the error result and a
\* call that returns success had its order accepted.
C29_RefusedOrderIsReported ==
    [][\A p \in Procs :
         /\ (pc[p] \in LockedPcs /\ pc'[p] = "idle" /\ loc'[p].result = "success")
               => loc[p].accepted
         /\ (pc[p] = "place" /\ pc'[p] = "idle" /\ loc'[p].result # "raised")
               => loc'[p].result = "order_failed"]_vars

\* The largest number of attempts the wrapper of one step makes.
AttemptsPerStep == IF rcfg.max_retries > 0 THEN rcfg.max_retries ELSE 0

SessionEnded == spc \in {"done", "raised"}

DefectBeforeLock(c) ==
    \/ c.signature = NoSignature
    \/ ~AmountOk(c.amount)
    \/ c.fail # "none"
    \/ c.side = "sell" /\ c.seen < IntAmount(c.amount).n

\* C31: a buy_futu / sell_futu call that is rejected appends nothing: with a
\* missing signature, an amount that is no positive integer, a failed quote
\* or position query or an insufficient holding it returns an error, places
\* no order and never takes the lock; with a refused place_order it returns
\* an error having written no entry. No call with such a defect gets as far
\* as the lock, and the step that ends a rejected call leaves the ledger as
\* it was.
C31_RejectedCallLeavesLedgerUnchanged ==
    /\ [](olast.result # "none" /\ DefectBeforeLock(olast)
            => /\ olast.result = "rejected"
               /\ ~olast.locked /\ ~olast.placed /\ olast.wrote = 0)
    /\ [](olast.refused => olast.result = "order_failed" /\ olast.wrote = 0)
    /\ [](\A p \in Procs :
            oreq[p].side = "sell" /\ oreq[p].seen < oreq[p].amount
                => ~oreq[p].locked /\ ~oreq[p].placed)
    /\ [][olast' # olast /\ olast'.result \in {"rejected", "order_failed"}
            => /\ ledger' = ledger /\ fileExists' = fileExists
               /\ nAppend' = nAppend
               /\ olog' = olog
               /\ olast'.result = "rejected" => flock' = flock /\ sent' = sent]_vars

\* A sell of more than the holding was rejected after an earlier call had
\* written its entry: that entry is all the ledger holds.
C31_Witness ==
    /\ olast.result = "rejected" /\ olast.side = "sell"
    /\ olast.signature = OrderAccount /\ olast.amount = [kind |-> "int", n |-> 2]
    /\ olast.fail = "none" /\ olast.seen = 1
    /\ Len(ledger[OrderAccount]) = 1 /\ nAppend[OrderAccount] = 1
    /\ \A p \in Procs : pc[p] = "idle"

\* The transcript entries a run has written before its step k+1: the seed,
\* and in a trading run two for each of the k steps.
LoggedBeforeStep(mode, k) == IF mode = "trading" THEN 1 + 2 * k ELSE 1

\* C32: a failure of the decision step reaches the caller of the session run
\* only when the wrapper has made all max_retries attempts of that step and
\* the last one failed; the run then raises that failure in its step k,
\* invokes no step after k, and the transcript entries of the seed and of the
\* steps before k are still there.
C32_FailureReachesCallerAfterAllAttempts ==
    /\ [](spc = "raised" /\ rlog.raised # "none"
            => /\ attempt = rcfg.max_retries
               /\ Len(rlog.errs) = rcfg.max_retries
               /\ rlog.errs[Len(rlog.errs)] = rlog.raised
               /\ rlog.okAt = 0
               /\ sess.exit = "raised"
               /\ sess.invoked = current_step
               /\ sess.logged = LoggedBeforeStep(scfg.mode, current_step - 1))
    /\ [][rpc = "raised" => /\ spc = "loop" /\ spc' = "raised"
                            /\ sess'.logged = sess.logged
                            /\ sess'.lastLogged = sess.lastLogged]_vars
    /\ [][spc = "raised" => UNCHANGED <<sessVars, retryVars>>]_vars

\* The second step of a trading run raised after two failed attempts: the
\* seed and the two entries of the first step are in the transcript.
C32_Witness ==
    /\ spc = "raised" /\ rlog.raised # "none"
    /\ rcfg.max_retries = 2 /\ Len(rlog.errs) = 2
    /\ scfg.mode = "trading" /\ current_step = 2 /\ sess.logged = 3
    /\ rlog.calls >= 3

\* C33: a buy_futu / sell_futu call that waits for the lock of its account
\* gets it and completes, whatever the other processes do, when scheduling is
\* fair and the calls a lock holder makes return: the wait is in
\* flock(LOCK_EX), which is enabled whenever nobody holds the lock, and no
\* holder keeps the lock for ever.
C33_WaiterAcquiresAndCompletes ==
    \A p \in Procs :
        /\ (pc[p] = "lock") ~> (pc[p] = "place" /\ flock[LockPath(loc[p].signature)] = p)
        /\ (pc[p] = "lock")
              ~> (pc[p] = "idle" /\ loc[p].result \in {"success", "order_failed"})

\* Every process waits for the lock of the same account or holds it.
C33_Witness ==
    /\ \E p \in Procs : pc[p] = "lock" /\ loc[p].signature = "A1" /\ flock["A1"] \notin {0, p}
    /\ \A p \in Procs : pc[p] \in {"lock"} \cup LockedPcs /\ loc[p].signature = "A1"
    /\ nAppend["A1"] >= 1

\* The sessions in which a market trades.
NamedWindows(m) ==
    IF m = "US" THEN {"PRE_MARKET", "REGULAR", "AFTER_HOURS"}
    ELSE IF m = "HK" THEN {"MORNING", "AFTERNOON"}
    ELSE {"PRE_MARKET", "REGULAR", "AFTER_HOURS", "MORNING", "AFTERNOON"}

\* C34: a result of get_market_status is consistent in itself: is_weekend
\* exactly when the session is WEEKEND, is_trading exactly when the session
\* is one of the named windows of the market, never both; the session is
\* always WEEKEND, CLOSED or a named window.
C34_StatusIsConsistent ==
    mpc = "done" =>
        /\ status.is_weekend <=> status.session = "WEEKEND"
        /\ status.is_trading <=> status.session \in NamedWindows(status.market)
        /\ status.session \in NamedWindows(status.market) \cup {"WEEKEND", "CLOSED"}
        /\ ~(status.is_trading /\ status.is_weekend)
        /\ status.is_weekend <=> status.weekday >= 5

\* Results of every kind were produced: here New York on a Saturday, at a
\* time of day that is inside the regular window.
C34_Witness ==
    /\ mpc = "done" /\ status.market = "US"
    /\ status.is_weekend /\ status.session = "WEEKEND" /\ ~status.is_trading
    /\ status.weekday = 5
    /\ InWindow(get_market_hours("US").windows[2],
                astimezone(now_utc, "America/New_York").minute)

\* A result that classifies the instant with the Hong Kong calendar.
ClassifiedAsHK(m, t, st) ==
    /\ st = [MarketStatus("HK", t) EXCEPT !.market = m]
    /\ st.session \in {"MORNING", "AFTERNOON", "CLOSED", "WEEKEND"}

\* C35: get_market_status applies the calendar of a market to that market
\* only: called with an identifier that is neither "US" nor "HK" (lowercase
\* "us", an unknown code) it rejects the call and gives no classification
\* made with the Hong Kong zone and windows.
C35_UnknownMarketIsRejected ==
    mpc = "done" /\ market \notin Markets
        => ~ClassifiedAsHK(market, now_utc, status)

\* The part of C35 that holds: the two configured identifiers get their own
\* zone and windows.
C35_ConfiguredMarketsUseOwnCalendar ==
    mpc = "done" /\ market \in Markets
        => /\ status = MarketStatus(market, now_utc)
           /\ status.session \in NamedWindows(market) \cup {"WEEKEND", "CLOSED"}
           /\ status.weekday
                = astimezone(now_utc, IF market = "US" THEN "America/New_York"
                                      ELSE "Asia/Hong_Kong").weekday

\* C36: the sell orders sell_futu sends for the instrument between two
\* changes of its holding never add up to more than the can_sell_qty of the
\* holding, however many sell_futu calls run at once.
C36_SellsNeverExceedSellable == sent <= can_sell

\* The part of C36 that holds: each single call passed the check with the
\* holding it read, and the orders are placed one at a time under the lock.
C36_EachSellFitsHoldingItRead ==
    /\ \A p \in Procs : oreq[p].side = "sell" => oreq[p].amount <= oreq[p].seen
    /\ Cardinality({p \in Procs : pc[p] \in LockedPcs}) <= 1

\* C37: for every max_retries, 0 and negative values included,
\* _ainvoke_with_retry ends either by returning the result of a call of the
\* decision step that succeeded or by raising a failure; it never returns an
\* empty result without having called the decision step.
C37_ReturnsOnlyASuccessfulResult ==
    /\ rpc = "returned" => /\ rlog.returned = "response"
                           /\ rlog.okAt >= 1 /\ rlog.okAt = rlog.calls
    /\ rpc \in {"returned", "raised"} => rlog.calls >= 1

\* The part of C37 that holds: with max_retries >= 1 the wrapper returns only
\* the response of its last call, which succeeded, or raises.
C37_PositiveBoundReturnsOnlyASuccessfulResult ==
    rcfg.max_retries >= 1 =>
        /\ rpc = "returned" => /\ rlog.returned = "response"
                               /\ rlog.okAt >= 1 /\ rlog.okAt = rlog.calls
        /\ rpc \in {"returned", "raised"} => rlog.calls >= 1
        /\ rpc = "raised" => rlog.raised # "none"

\* No other call of the account is between its place_order and its ledger
\* append when an order is placed.
PlacedOneAtATime ==
    [][Len(olog') > Len(olog)
         => \A q \in Procs : pc[q] \notin {"scan", "append"}]_vars

\* C38: the ledger order of an account agrees with the order in which its
\* orders were placed: of two accepted trades whose entries were written, the
\* one whose place_order call came first has the smaller id; and no other
\* trade of the account places an order between a trade's place_order and
\* its ledger append.
C38_LedgerOrderIsPlacementOrder ==
    /\ [](\A i, j \in 1..Len(olog) :
            i < j /\ olog[i].id # 0 /\ olog[j].id # 0 => olog[i].id < olog[j].id)
    /\ PlacedOneAtATime

\* The part of C38 that holds: place_order and the append of its entry are in
\* one locked section, so the orders of an account are placed one at a time
\* and each entry is written before the next order is placed.
C38_LockedSectionKeepsPlacementOrder ==
    /\ PlacedOneAtATime
    /\ [](\A i \in 1..Len(olog) :
            i < Len(olog) /\ olog[i].id = 0 => pc[olog[i].proc] \notin {"scan", "append"})

\* C39: run_trading handles the enabled models one after the other and a
\* model's failure stays with that model: after a missing API key, an
\* initialization error, a registration error or a failed session, the loop
\* is still running and goes on with the next enabled model, whose body is
\* run whenever it has its key and signature; run_trading raises nothing and
\* returns only when every enabled model has been handled.
C39_ModelFailuresAreIsolated ==
    /\ gpc \in {"start", "loop", "returned"}
    /\ gpc = "loop" =>
          \/ ENABLED RunReturn
          \/ \E outcome \in BodyOutcomes \cup {"no_key", "no_signature"} :
                ENABLED RunModel(outcome)
    /\ gpc = "returned" => Len(glog.outcomes) = Cardinality(EnabledIndexes)
    /\ \A k \in 2..Len(glog.outcomes) :
          (/\ glog.outcomes[k - 1] \in FailureOutcomes
           /\ KthEnabled(k).api_key /\ KthEnabled(k).signature)
              => glog.outcomes[k] \in BodyOutcomes
    /\ (/\ gpc = "loop" /\ gidx <= Cardinality(EnabledIndexes)
        /\ KthEnabled(gidx).api_key /\ KthEnabled(gidx).signature)
          => ENABLED RunModel("session_done")

\* The session of the first enabled model failed, the second model ran its
\* session to the end, and run_trading returned.
C39_Witness ==
    /\ gpc = "returned"
    /\ glog.outcomes = <<"session_failed", "session_done">>
    /\ glog.passes = 2

====
